---- MODULE Spec2Model ----
(***************************************************************************)
(* Ranking engine of WOPAV: majority placement with head-to-head tie       *)
(* resolution (Main_Dashboard.py), the judge ranking builder, the round    *)
(* combiner and the score aggregators (scoring_systems.py).                *)
(*                                                                         *)
(* Competitor ids (start numbers) are strings in the program and are only  *)
(* compared with each other; they are modelled as the naturals 1..n whose  *)
(* order stands for the string order.  A judge ranking is a function from  *)
(* a subset of the ids to ranks; an id outside its DOMAIN is an id the     *)
(* dict has no key for (ranking.get(id, default)).                         *)
(***************************************************************************)
EXTENDS Integers, Sequences, FiniteSets, TLC

VARIABLES
    mode,               \* which entry point this run exercises
    pc,                 \* position inside the entry point
    df_ids,             \* df_subset["start_number"], in row order
    judge_rankings,     \* list of ranking dicts, one per judge
    unplaced,           \* determine_majority_placements: unplaced
    placement_records,  \* determine_majority_placements: placement_records
    next_place,         \* determine_majority_placements: next_place
    passes,             \* number of passes of the outer while loop so far
    tie_calls,          \* <<caller size, callee size>> of the recursive resolve_ties calls so far
    candidates,         \* resolve_ties: candidates
    tie_result,         \* resolve_ties: what it returned
    selected_data,      \* the couples of the round's raw data
    other_round_data,   \* the couples of the round it is combined with
    df_subset,          \* the data frame: one row per couple
    scores_out,         \* what the aggregation policies returned, per couple
    result              \* what compute_majority_system_results returned

vars == <<mode, pc, df_ids, judge_rankings, unplaced, placement_records,
          next_place, passes, tie_calls, candidates, tie_result,
          selected_data, other_round_data, df_subset, scores_out, result>>

placeVars == <<df_ids, judge_rankings, unplaced, placement_records,
               next_place, passes, tie_calls, candidates, tie_result>>

roundVars == <<selected_data, other_round_data, df_subset, scores_out, result>>

(***************************************************************************)
(* Bounds of the model.                                                    *)
(***************************************************************************)
\* placement runs: competitors; and the size of the judges' input, counted as
\* competitors * judges + missing ranking entries + competitors sharing a rank
MaxComp == 4
MaxCells == 9
\* tie resolver runs: competitors * judges + competitors sharing a rank
MaxTieCells == 12
\* a round's raw data: couples + judge scores + scores that parse to nothing
\* + lists outside the first category
MaxPipeCells == 6
\* two rounds to combine: the sum of their sizes
MaxCombineCells == 5
\* one couple's raw scores for the aggregation policies: judge scores + tokens
\* that are not plain numerals + lists outside the first category
MaxScoreCells == 5
\* significant bits of a float (53 in the program)
MantissaBits == 7
\* a float is smaller in magnitude than 2 ^ MaxExponent (2 ^ 1024 in the program)
MaxExponent == 10
\* judge lists up to this length are tried in every order
MaxPermuted == 5

(***************************************************************************)
(* Lists, dicts and sorting.                                               *)
(***************************************************************************)
Range(s) == {s[i] : i \in DOMAIN s}

\* list.remove(x): drops the first occurrence of x, if any
Remove(s, x) ==
    IF \E i \in DOMAIN s : s[i] = x
    THEN LET p == CHOOSE i \in DOMAIN s : s[i] = x /\ \A j \in 1..(i - 1) : s[j] # x
         IN  SubSeq(s, 1, p - 1) \o SubSeq(s, p + 1, Len(s))
    ELSE s

RECURSIVE RemoveFirstOnly(_, _)
\* mutant of RemoveAll: only the first member of the group is removed
RemoveFirstOnly(s, xs) ==
    IF xs = <<>> THEN s ELSE Remove(s, Head(xs))

RECURSIVE RemoveAll(_, _)
\* for candidate in group: if candidate in unplaced: unplaced.remove(candidate)
RemoveAll(s, xs) ==
    IF xs = <<>> THEN s ELSE RemoveAll(Remove(s, Head(xs)), Tail(xs))

RECURSIVE Flatten(_)
Flatten(groups) ==
    IF groups = <<>> THEN <<>> ELSE Head(groups) \o Flatten(Tail(groups))

\* dict.update: the entries of g override those of f
Update(f, g) ==
    [x \in DOMAIN f \cup DOMAIN g |-> IF x \in DOMAIN g THEN g[x] ELSE f[x]]

EmptyDict == [x \in {} |-> <<>>]

\* tuple comparison of the sort keys (k1, k2)
KeyLess(x, y) == x[1] < y[1] \/ (x[1] = y[1] /\ x[2] < y[2])

\* list.sort / sorted on pairs <<k1, k2>>: stable, ascending
RECURSIVE SortPairs(_)
SortPairs(s) ==
    IF Len(s) <= 1 THEN s
    ELSE LET done == SortPairs(SubSeq(s, 1, Len(s) - 1))
             x    == s[Len(s)]
             p    == Cardinality({i \in DOMAIN done : ~KeyLess(x, done[i])})
         IN  SubSeq(done, 1, p) \o <<x>> \o SubSeq(done, p + 1, Len(done))

Max(S) == CHOOSE m \in S : \A x \in S : x <= m

(***************************************************************************)
(* resolve_ties.                                                           *)
(***************************************************************************)
\* rank_a < rank_b where rank = ranking.get(id, float('inf'))
RankBefore(ranking, a, b) ==
    /\ a \in DOMAIN ranking
    /\ (b \notin DOMAIN ranking \/ ranking[a] < ranking[b])

\* mutant of head_to_head: only the first ranking is looked at
head_to_head_first_judge(a, b, jr) ==
    <<Cardinality({k \in DOMAIN jr : k = 1 /\ RankBefore(jr[k], a, b)}),
      Cardinality({k \in DOMAIN jr : k = 1 /\ RankBefore(jr[k], b, a)})>>

\* mutant of head_to_head: elif rank_b < rank_a replaced by else
head_to_head_else(a, b, jr) ==
    <<Cardinality({k \in DOMAIN jr : RankBefore(jr[k], a, b)}),
      Cardinality({k \in DOMAIN jr : ~RankBefore(jr[k], a, b)})>>

head_to_head(a, b, jr) ==
    <<Cardinality({k \in DOMAIN jr : RankBefore(jr[k], a, b)}),
      Cardinality({k \in DOMAIN jr : RankBefore(jr[k], b, a)})>>

\* a rationale string, kept as its parts: <<kind, other id, wins, wins>>
Note(kind, other, w1, w2) == <<kind, other, w1, w2>>

\* mutant of ResolvePair: wins_a >= wins_b decides for a, no exact tie
ResolvePairFirstWins(cands, jr) ==
    LET a == cands[1]
        b == cands[2]
        w == head_to_head(a, b, jr)
        decided == (a :> <<Note("Head-to-head", b, w[1], w[2])>>)
                   @@ (b :> <<Note("Head-to-head", a, w[2], w[1])>>)
    IN  IF w[1] >= w[2] THEN [groups |-> << <<a>>, <<b>> >>, info |-> decided, calls |-> {}]
        ELSE [groups |-> << <<b>>, <<a>> >>, info |-> decided, calls |-> {}]

\* mutant of ResolvePair: the groups of a decided comparison are swapped
ResolvePairLoserFirst(cands, jr) ==
    LET a == cands[1]
        b == cands[2]
        w == head_to_head(a, b, jr)
        decided == (a :> <<Note("Head-to-head", b, w[1], w[2])>>)
                   @@ (b :> <<Note("Head-to-head", a, w[2], w[1])>>)
        tied    == (a :> <<Note("Head-to-head tie", 0, w[1], w[2])>>)
                   @@ (b :> <<Note("Head-to-head tie", 0, w[1], w[2])>>)
    IN  IF w[1] > w[2] THEN [groups |-> << <<b>>, <<a>> >>, info |-> decided, calls |-> {}]
        ELSE IF w[2] > w[1] THEN [groups |-> << <<a>>, <<b>> >>, info |-> decided, calls |-> {}]
        ELSE [groups |-> <<cands>>, info |-> tied, calls |-> {}]

\* mutant of ResolvePair: an exact tie leaves no note
ResolvePairTieWithoutNote(cands, jr) ==
    LET a == cands[1]
        b == cands[2]
        w == head_to_head(a, b, jr)
        decided == (a :> <<Note("Head-to-head", b, w[1], w[2])>>)
                   @@ (b :> <<Note("Head-to-head", a, w[2], w[1])>>)
    IN  IF w[1] > w[2] THEN [groups |-> << <<a>>, <<b>> >>, info |-> decided, calls |-> {}]
        ELSE IF w[2] > w[1] THEN [groups |-> << <<b>>, <<a>> >>, info |-> decided, calls |-> {}]
        ELSE [groups |-> <<cands>>, info |-> EmptyDict, calls |-> {}]

\* resolve_ties with exactly two candidates
ResolvePair(cands, jr) ==
    LET a == cands[1]
        b == cands[2]
        w == head_to_head(a, b, jr)
        decided == (a :> <<Note("Head-to-head", b, w[1], w[2])>>)
                   @@ (b :> <<Note("Head-to-head", a, w[2], w[1])>>)
        tied    == (a :> <<Note("Head-to-head tie", 0, w[1], w[2])>>)
                   @@ (b :> <<Note("Head-to-head tie", 0, w[1], w[2])>>)
    IN  IF w[1] > w[2] THEN [groups |-> << <<a>>, <<b>> >>, info |-> decided, calls |-> {}]
        ELSE IF w[2] > w[1] THEN [groups |-> << <<b>>, <<a>> >>, info |-> decided, calls |-> {}]
        ELSE [groups |-> <<cands>>, info |-> tied, calls |-> {}]

\* mutant of PairwiseScore: only the wins against later candidates count
PairwiseScoreForwardOnly(cands, i, jr) ==
    Cardinality({j \in (i + 1)..Len(cands) :
                    LET w == head_to_head(cands[i], cands[j], jr) IN w[1] > w[2]})

\* mutant of PairwiseScore: lost comparisons are counted instead of won ones
PairwiseScoreLosses(cands, i, jr) ==
    Cardinality({j \in (i + 1)..Len(cands) :
                    LET w == head_to_head(cands[i], cands[j], jr) IN w[1] < w[2]})
    + Cardinality({j \in 1..(i - 1) :
                    LET w == head_to_head(cands[j], cands[i], jr) IN w[2] < w[1]})

\* pairwise_scores[cands[i]] after the double loop over i < j
PairwiseScore(cands, i, jr) ==
    Cardinality({j \in (i + 1)..Len(cands) :
                    LET w == head_to_head(cands[i], cands[j], jr) IN w[1] > w[2]})
    + Cardinality({j \in 1..(i - 1) :
                    LET w == head_to_head(cands[j], cands[i], jr) IN w[2] > w[1]})

\* pairwise_notes[cands[i]]: one "vs" entry per other candidate, in list order
PairwiseNotes(cands, i, jr) ==
    LET others == SelectSeq([j \in 1..Len(cands) |-> j], LAMBDA j : j # i)
    IN  [k \in 1..Len(others) |->
            LET j == others[k]
                w == IF i < j THEN head_to_head(cands[i], cands[j], jr)
                     ELSE LET v == head_to_head(cands[j], cands[i], jr) IN <<v[2], v[1]>>
            IN  Note("vs", cands[j], w[1], w[2])]

RECURSIVE resolve_ties(_, _)
RECURSIVE ResolveLoop(_, _, _, _, _, _, _)

\* the while loop of resolve_ties; scores and notes are those of the whole
\* candidate list cands, remaining shrinks
ResolveLoop(cands, remaining, result_groups, tie_info, calls, scores, jr) ==
    IF remaining = <<>>
    THEN [groups |-> result_groups, info |-> tie_info, calls |-> calls]
    ELSE
      LET max_score   == Max({scores[c] : c \in Range(remaining)})
          current_top == SelectSeq(remaining, LAMBDA c : scores[c] = max_score)
          notes(S)    == [c \in S |->
                            PairwiseNotes(cands, CHOOSE i \in DOMAIN cands : cands[i] = c, jr)]
      IN  IF Len(current_top) = Len(remaining)
          THEN [groups |-> Append(result_groups, remaining),
                info   |-> Update(tie_info, notes(Range(remaining))),
                calls  |-> calls]
          ELSE IF Len(current_top) = 1
          THEN ResolveLoop(cands, Remove(remaining, current_top[1]),
                           Append(result_groups, <<current_top[1]>>),
                           Update(tie_info, notes({current_top[1]})),
                           calls, scores, jr)
          ELSE LET sub == resolve_ties(current_top, jr)
               IN  ResolveLoop(cands, RemoveAll(remaining, Flatten(sub.groups)),
                               result_groups \o sub.groups,
                               Update(tie_info, sub.info),
                               calls \cup sub.calls \cup {<<Len(cands), Len(current_top)>>},
                               scores, jr)

\* returns the ordered groups, the rationale dict, and (for the recursion
\* bound) the <<caller size, callee size>> of every recursive call made
resolve_ties(cands, jr) ==
    IF Len(cands) <= 1
    THEN [groups |-> <<cands>>, info |-> EmptyDict, calls |-> {}]
    ELSE IF Len(cands) = 2
    THEN ResolvePair(cands, jr)
    ELSE
      LET scores == [c \in Range(cands) |->
                        PairwiseScore(cands, CHOOSE i \in DOMAIN cands : cands[i] = c, jr)]
          allnotes == [c \in Range(cands) |->
                        PairwiseNotes(cands, CHOOSE i \in DOMAIN cands : cands[i] = c, jr)]
          max_score == Max({scores[c] : c \in Range(cands)})
          top_candidates == SelectSeq(cands, LAMBDA c : scores[c] = max_score)
      IN  IF Len(top_candidates) = Len(cands)
          THEN [groups |-> <<cands>>, info |-> allnotes, calls |-> {}]
          ELSE LET r == ResolveLoop(cands, cands, <<>>, EmptyDict, {}, scores, jr)
               IN  [groups |-> r.groups,
                    \* tie_info.setdefault for every candidate
                    info   |-> Update(allnotes, r.info),
                    calls  |-> r.calls]

(***************************************************************************)
(* determine_majority_placements.                                          *)
(***************************************************************************)
\* sum(1 for ranking in judge_rankings if ranking.get(id, inf) <= threshold)
QualCount(id, threshold, jr) ==
    Cardinality({k \in DOMAIN jr : id \in DOMAIN jr[k] /\ jr[k][id] <= threshold})

\* mutant of IsMajority: count < num_judges / 2
IsMinority(count, num_judges) == 2 * count < num_judges

\* mutant of IsMajority: count > (num_judges + 1) / 2
IsMajorityOffByOne(count, num_judges) == 2 * count > num_judges + 1

\* count > num_judges / 2 (true division)
IsMajority(count, num_judges) == 2 * count > num_judges

\* candidate_counts of one threshold, as a dict id -> count
CandidateCounts(unpl, threshold, jr, num_judges) ==
    [id \in {c \in Range(unpl) : IsMajority(QualCount(c, threshold, jr), num_judges)}
        |-> QualCount(id, threshold, jr)]

\* mutant of FirstThreshold: the for loop does not break at the first
\* threshold with candidates, the last one is used
FirstThresholdLast(unpl, jr, total_couples, num_judges) ==
    LET hits == {t \in 1..total_couples :
                    DOMAIN CandidateCounts(unpl, t, jr, num_judges) # {}}
    IN  IF hits = {} THEN 0 ELSE CHOOSE t \in hits : \A u \in hits : t >= u

\* mutant of FirstThreshold: for threshold in range(1, total_couples)
FirstThresholdShort(unpl, jr, total_couples, num_judges) ==
    LET hits == {t \in 1..(total_couples - 1) :
                    DOMAIN CandidateCounts(unpl, t, jr, num_judges) # {}}
    IN  IF hits = {} THEN 0 ELSE CHOOSE t \in hits : \A u \in hits : t <= u

\* the threshold at which the for loop breaks, 0 when it runs to its end
FirstThreshold(unpl, jr, total_couples, num_judges) ==
    LET hits == {t \in 1..total_couples :
                    DOMAIN CandidateCounts(unpl, t, jr, num_judges) # {}}
    IN  IF hits = {} THEN 0 ELSE CHOOSE t \in hits : \A u \in hits : t <= u

\* mutant of SortedCandidates: key=lambda x: -x[1], equal counts in the order of unplaced
SortedByCountOnly(unpl, counts) ==
    LET items   == SelectSeq(unpl, LAMBDA c : c \in DOMAIN counts)
        byCount == SortPairs([i \in 1..Len(items) |-> <<0 - counts[items[i]], i>>])
    IN  [k \in DOMAIN byCount |-> <<byCount[k][1], items[byCount[k][2]]>>]

\* mutant of SortedCandidates: key=lambda x: (x[1], x[0]), the smallest count first
SortedByCountAscending(unpl, counts) ==
    LET items == SelectSeq(unpl, LAMBDA c : c \in DOMAIN counts)
    IN  SortPairs([i \in 1..Len(items) |-> <<counts[items[i]], items[i]>>])

\* sorted(candidate_counts.items(), key=lambda x: (-x[1], x[0])) as <<-count, id>>
SortedCandidates(unpl, counts) ==
    LET items == SelectSeq(unpl, LAMBDA c : c \in DOMAIN counts)
    IN  SortPairs([i \in 1..Len(items) |-> <<0 - counts[items[i]], items[i]>>])

Summary(kind, threshold, count, num_judges) ==
    [kind |-> kind, threshold |-> threshold, count |-> count, judges |-> num_judges]

\* "tie_info": {c: tie_info.get(c) for c in group} if tie_info else {}
RecordTieInfo(group, tie_info) ==
    IF DOMAIN tie_info = {} THEN EmptyDict
    ELSE [c \in Range(group) |-> IF c \in DOMAIN tie_info THEN tie_info[c] ELSE <<>>]

\* for group in resolved_groups: append the record, remove, advance next_place
\* mutant of PlaceStep: next_place += 1
PlaceStepOne(group) == 1

\* next_place += len(group)
PlaceStep(group) == Len(group)

RECURSIVE PlaceGroups(_, _, _, _)
PlaceGroups(groups, tie_info, summary_of, st) ==
    IF groups = <<>> THEN st
    ELSE LET group == Head(groups)
             record == [place    |-> st.next_place,
                        couples  |-> group,
                        summary  |-> summary_of[group[1]],
                        tie_info |-> RecordTieInfo(group, tie_info)]
         IN  PlaceGroups(Tail(groups), tie_info, summary_of,
                         [st EXCEPT !.records    = Append(@, record),
                                    !.unplaced   = RemoveAll(@, group),
                                    !.next_place = @ + PlaceStep(group)])

\* the while idx < len(sorted_candidates) loop
RECURSIVE PlaceRuns(_, _, _, _, _)
PlaceRuns(sorted, idx, summary_of, jr, st) ==
    IF idx > Len(sorted) THEN st
    ELSE LET count_value == sorted[idx][1]
             stop == IF \E j \in idx..Len(sorted) : sorted[j][1] # count_value
                     THEN CHOOSE j \in idx..Len(sorted) :
                            /\ sorted[j][1] # count_value
                            /\ \A i \in idx..(j - 1) : sorted[i][1] = count_value
                     ELSE Len(sorted) + 1
             same_count_candidates == [i \in 1..(stop - idx) |-> sorted[idx + i - 1][2]]
             resolved == resolve_ties(same_count_candidates, jr)
         IN  PlaceRuns(sorted, stop, summary_of, jr,
                       PlaceGroups(resolved.groups, resolved.info, summary_of,
                                   [st EXCEPT !.calls = @ \cup resolved.calls]))

\* one pass of the outer loop that finds a majority at threshold t
MajorityPass(st, t, jr, num_judges) ==
    LET counts == CandidateCounts(st.unplaced, t, jr, num_judges)
        summary_of == [c \in DOMAIN counts |-> Summary("Majority", t, counts[c], num_judges)]
    IN  PlaceRuns(SortedCandidates(st.unplaced, counts), 1, summary_of, jr, st)

RECURSIVE SumRanks(_, _, _, _)
\* sum(ranking.get(id, default) for ranking in judge_rankings)
SumRanks(id, jr, k, default) ==
    IF k = 0 THEN 0
    ELSE SumRanks(id, jr, k - 1, default)
         + (IF id \in DOMAIN jr[k] THEN jr[k][id] ELSE default)

RECURSIVE PlaceSinglesKeep(_, _, _)
\* mutant of PlaceSingles: unplaced.remove(start_number) is missing
PlaceSinglesKeep(order, num_judges, st) ==
    IF order = <<>> THEN st
    ELSE LET id == Head(order)[2]
             s  == Summary("Fallback", 0, Head(order)[1], num_judges)
             record == [place |-> st.next_place, couples |-> <<id>>, summary |-> s,
                        tie_info |-> (id :> <<Note("Fallback", 0, Head(order)[1], num_judges)>>)]
         IN  PlaceSinglesKeep(Tail(order), num_judges,
                              [st EXCEPT !.records    = Append(@, record),
                                         !.next_place = @ + 1])

RECURSIVE PlaceSingles(_, _, _)
\* for start_number, avg in avg_ranks: one record each, next_place += 1
PlaceSingles(order, num_judges, st) ==
    IF order = <<>> THEN st
    ELSE LET id == Head(order)[2]
             s  == Summary("Fallback", 0, Head(order)[1], num_judges)
             record == [place |-> st.next_place, couples |-> <<id>>, summary |-> s,
                        tie_info |-> (id :> <<Note("Fallback", 0, Head(order)[1], num_judges)>>)]
         IN  PlaceSingles(Tail(order), num_judges,
                          [st EXCEPT !.records    = Append(@, record),
                                     !.unplaced   = Remove(@, id),
                                     !.next_place = @ + 1])

\* the pass that found no majority: order by average rank.  The average
\* total_rank / num_judges is kept as the pair (total_rank, num_judges); all
\* averages of one pass share the divisor, so they compare as the totals do.
\* With num_judges = 0 the division raises ZeroDivisionError.
FallbackPass(st, jr, num_judges, total_couples) ==
    IF num_judges = 0 THEN [st EXCEPT !.raised = TRUE]
    ELSE LET avg_ranks == [i \in 1..Len(st.unplaced) |->
                            <<SumRanks(st.unplaced[i], jr, Len(jr), total_couples + 1),
                              st.unplaced[i]>>]
         IN  PlaceSingles(SortPairs(avg_ranks), num_judges, st)

\* one pass of while unplaced
PlacementPass(st, jr, num_judges, total_couples) ==
    LET t == FirstThreshold(st.unplaced, jr, total_couples, num_judges)
    IN  IF t # 0 THEN MajorityPass(st, t, jr, num_judges)
        ELSE FallbackPass(st, jr, num_judges, total_couples)

PlacementStart(ids) ==
    [unplaced |-> ids, records |-> <<>>, next_place |-> 1, raised |-> FALSE,
     calls |-> {}]

RECURSIVE PlacementLoop(_, _, _, _)
PlacementLoop(st, jr, num_judges, total_couples) ==
    IF st.unplaced = <<>> \/ st.raised THEN st
    ELSE PlacementLoop(PlacementPass(st, jr, num_judges, total_couples),
                       jr, num_judges, total_couples)

\* the whole function: its records, or raised
determine_majority_placements(ids, jr, num_judges) ==
    PlacementLoop(PlacementStart(ids), jr, num_judges, Len(ids))

(***************************************************************************)
(* Numbers.  A score is a float in the program; it is modelled as a       *)
(* rational <<numerator, denominator>> in lowest terms with a positive     *)
(* denominator, and every float operation rounds its exact result to the   *)
(* nearest number of MantissaBits significant bits, ties to the even       *)
(* mantissa.  The scores of the model stay far inside the exponent range   *)
(* in every operation (no inf, no nan) but one: float(n) of an int n that  *)
(* is out of the range raises OverflowError.  An Optional value is <<>>    *)
(* (None) or <<x>>.                                                        *)
(***************************************************************************)
Absent == <<>>
Some(x) == <<x>>
IsAbsent(o) == o = <<>>
Value(o) == o[1]

Abs(x) == IF x < 0 THEN -x ELSE x

RECURSIVE GCD(_, _)
GCD(a, b) == IF b = 0 THEN a ELSE GCD(b, a % b)

\* n / d in lowest terms (d # 0)
Rat(n, d) ==
    LET g == GCD(Abs(n), Abs(d))
        s == IF d < 0 THEN -1 ELSE 1
    IN  <<(s * n) \div g, (s * d) \div g>>

RatOfInt(n) == <<n, 1>>
RatNeg(x) == <<-x[1], x[2]>>
RatAbs(x) == <<Abs(x[1]), x[2]>>
\* sums and products are formed over the least common denominator
RatAdd(x, y) ==
    LET g == GCD(x[2], y[2])
    IN  Rat(x[1] * (y[2] \div g) + y[1] * (x[2] \div g), (x[2] \div g) * y[2])
RatSub(x, y) == RatAdd(x, RatNeg(y))
RatMul(x, y) ==
    LET g1 == GCD(Abs(x[1]), y[2])
        g2 == GCD(Abs(y[1]), x[2])
    IN  Rat((x[1] \div g1) * (y[1] \div g2), (x[2] \div g2) * (y[2] \div g1))
\* x / y (y # 0)
RatDiv(x, y) == RatMul(x, Rat(y[2], y[1]))
RatLess(x, y) == x[1] * y[2] < y[1] * x[2]

RECURSIVE Pow10(_)
Pow10(k) == IF k = 0 THEN 1 ELSE 10 * Pow10(k - 1)

RECURSIVE Pow2(_)
Pow2(k) == IF k = 0 THEN 1 ELSE 2 * Pow2(k - 1)

\* the shifts by a power of two that bring a / d (a > 0, d > 0) to an integer
\* part of exactly MantissaBits bits
ShiftRange == 1..(2 * MaxExponent + MantissaBits)
ShiftUp(a, d) ==
    LET lo == d * Pow2(MantissaBits - 1)
    IN  IF a >= lo THEN 0
        ELSE CHOOSE k \in ShiftRange : a * Pow2(k) >= lo /\ a * Pow2(k - 1) < lo
ShiftDown(a, d) ==
    LET hi == d * Pow2(MantissaBits)
    IN  IF a < hi THEN 0
        ELSE CHOOSE k \in ShiftRange : a < hi * Pow2(k) /\ a >= hi * Pow2(k - 1)

RECURSIVE TwoPart(_)
\* the largest power of two that divides d (d > 0)
TwoPart(d) == IF d % 2 = 0 THEN 2 * TwoPart(d \div 2) ELSE 1

\* the float nearest to n / d (d odd): n / d is scaled by a power of two until
\* its integer part has MantissaBits bits, rounded half to even, and scaled back
RoundOdd(n, d) ==
    LET up   == ShiftUp(Abs(n), d)
        down == ShiftDown(Abs(n), d)
        a    == Abs(n) * Pow2(up)
        b    == d * Pow2(down)
        q    == a \div b
        r    == a % b
        m    == IF 2 * r > b \/ (2 * r = b /\ q % 2 = 1) THEN q + 1 ELSE q
        sign == IF n < 0 THEN -1 ELSE 1
    IN  Rat(sign * m * Pow2(down), Pow2(up))

\* the float nearest to the rational x; rounding commutes with the division
\* by a power of two
Round(x) ==
    IF x[1] = 0 THEN x
    ELSE LET t == TwoPart(x[2])
             y == RoundOdd(x[1], x[2] \div t)
         IN  Rat(y[1], y[2] * t)

\* x + y, x - y, x * y, x / y of floats
FloatAdd(x, y) == Round(RatAdd(x, y))
FloatSub(x, y) == Round(RatSub(x, y))
FloatMul(x, y) == Round(RatMul(x, y))
FloatDiv(x, y) == Round(RatDiv(x, y))

\* float(n) of the int n raises OverflowError
IntOverflows(n) == Abs(n) >= Pow2(MaxExponent)

RECURSIVE FloatSum(_)
\* sum(values): the values are added from left to right, starting from 0
FloatSum(values) ==
    IF values = <<>> THEN RatOfInt(0)
    ELSE FloatAdd(FloatSum(SubSeq(values, 1, Len(values) - 1)), values[Len(values)])

(***************************************************************************)
(* Raw score tokens and their parsing.  A token of the JSON data is null,  *)
(* a number or a string; a string is the sequence of its characters.       *)
(***************************************************************************)
NoneTok == [kind |-> "none", num |-> 0, chars |-> <<>>]
NumTok(v) == [kind |-> "num", num |-> v, chars |-> <<>>]
StrTok(cs) == [kind |-> "str", num |-> 0, chars |-> cs]

Digits == {"0", "1", "2", "3", "4", "5", "6", "7", "8", "9"}

DigitValue(c) ==
    CASE c = "0" -> 0 [] c = "1" -> 1 [] c = "2" -> 2 [] c = "3" -> 3
      [] c = "4" -> 4 [] c = "5" -> 5 [] c = "6" -> 6 [] c = "7" -> 7
      [] c = "8" -> 8 [] c = "9" -> 9

RECURSIVE DigitsValue(_)
\* the natural number a string of digits denotes ("" = 0)
DigitsValue(ds) ==
    IF ds = <<>> THEN 0
    ELSE 10 * DigitsValue(SubSeq(ds, 1, Len(ds) - 1)) + DigitValue(ds[Len(ds)])

RECURSIVE LStrip(_)
LStrip(cs) == IF cs # <<>> /\ Head(cs) = " " THEN LStrip(Tail(cs)) ELSE cs

RECURSIVE RStrip(_)
RStrip(cs) ==
    IF cs # <<>> /\ cs[Len(cs)] = " " THEN RStrip(SubSeq(cs, 1, Len(cs) - 1)) ELSE cs

\* str.strip()
Strip(cs) == RStrip(LStrip(cs))

\* str.replace(from, to) for single characters
ReplaceChar(cs, from, to) == [i \in DOMAIN cs |-> IF cs[i] = from THEN to ELSE cs[i]]

\* str.replace(c, "")
RemoveChar(cs, c) == SelectSeq(cs, LAMBDA x : x # c)

\* float(text) for an unsigned text without surrounding blanks: digits with at
\* most one "." and at least one digit; anything else is a ValueError (Absent)
UnsignedFloat(cs) ==
    LET dots == {i \in DOMAIN cs : cs[i] = "."}
        ds   == SelectSeq(cs, LAMBDA x : x \in Digits)
    IN  IF \/ \E i \in DOMAIN cs : cs[i] \notin Digits \cup {"."}
           \/ Cardinality(dots) > 1
           \/ ds = <<>>
        THEN Absent
        ELSE LET frac == IF dots = {} THEN 0 ELSE Len(cs) - (CHOOSE i \in dots : TRUE)
             IN  Some(Round(Rat(DigitsValue(ds), Pow10(frac))))

\* float(text): surrounding blanks are ignored, one leading sign is allowed
FloatOf(text) ==
    LET cs == Strip(text)
    IN  IF cs # <<>> /\ cs[1] \in {"-", "+"}
        THEN LET u == UnsignedFloat(Tail(cs))
             IN  IF IsAbsent(u) \/ cs[1] = "+" THEN u ELSE Some(RatNeg(Value(u)))
        ELSE UnsignedFloat(cs)

\* Main_Dashboard.parse_european_number: a falsy token is None; a number has
\* no .replace (AttributeError, caught by the bare except); a string that
\* float() rejects is None
parse_european_number(num_str) ==
    IF num_str.kind = "none" THEN Absent
    ELSE IF num_str.kind = "num" THEN Absent
    ELSE IF num_str.chars = <<>> THEN Absent
    ELSE FloatOf(ReplaceChar(num_str.chars, ",", "."))

\* scoring_systems._parse_score does not return: float(value) of an int raises
\* OverflowError, which nothing catches
ParseScoreRaises(value) == value.kind = "num" /\ IntOverflows(value.num)

\* scoring_systems._parse_score, when it returns
_parse_score(value) ==
    IF value.kind = "none" THEN Absent
    ELSE IF value.kind = "num" THEN Some(Round(RatOfInt(value.num)))
    ELSE LET text == Strip(value.chars)
         IN  IF text = <<>> THEN Absent
             ELSE FloatOf(ReplaceChar(RemoveChar(text, " "), ",", "."))

(***************************************************************************)
(* The data frame of a round and the judge rankings built from it.  A      *)
(* couple of the raw data is [start_number, categories], categories a      *)
(* function from the category codes to the list of raw judge scores (a     *)
(* category the data lacks reads as the empty list).  A row of the data    *)
(* frame is [start_number, scores], scores[cat] the <cat>_judge_scores     *)
(* list of Optional numbers.                                               *)
(***************************************************************************)
Categories == <<"BBW", "BBM", "LF", "DF", "MI">>
CategorySet == Range(Categories)

\* judge_scores = [parse_european_number(s) for s in cat_data.get("judge_scores", [])]
ParsedScores(tokens) == [k \in DOMAIN tokens |-> parse_european_number(tokens[k])]

prepare_couples_data(results_data) ==
    [i \in DOMAIN results_data |->
        [start_number |-> results_data[i].start_number,
         scores |-> [cat \in CategorySet |-> ParsedScores(results_data[i].categories[cat])]]]

\* len([s for s in scores if s is not None])
NonAbsentCount(scores) == Len(SelectSeq(scores, LAMBDA s : ~IsAbsent(s)))

\* the largest count of one category over the rows
CategoryJudgeCount(df, cat) ==
    Max({NonAbsentCount(df[i].scores[cat]) : i \in DOMAIN df} \cup {0})

RECURSIVE FirstJudgeCount(_, _)
\* num_judges: the count of the first category, from Categories[k] on, that has one
FirstJudgeCount(df, k) ==
    IF k > Len(Categories) THEN 0
    ELSE LET count == CategoryJudgeCount(df, Categories[k])
         IN  IF count # 0 THEN count ELSE FirstJudgeCount(df, k + 1)

RECURSIVE JudgeTotal(_, _, _)
\* total_score of a row for judge_idx over the categories 1..k
JudgeTotal(row, judge_idx, k) ==
    IF k = 0 THEN RatOfInt(0)
    ELSE LET scores == row.scores[Categories[k]]
             before == JudgeTotal(row, judge_idx, k - 1)
         IN  IF judge_idx <= Len(scores) /\ ~IsAbsent(scores[judge_idx])
             THEN FloatAdd(before, Value(scores[judge_idx]))
             ELSE before

\* mutant of Totals: a row without a score of the judge gets no total
TotalsScoredOnly(df, judge_idx) ==
    LET scored == SelectSeq([i \in DOMAIN df |-> i],
                            LAMBDA i : \E cat \in CategorySet :
                                          /\ judge_idx <= Len(df[i].scores[cat])
                                          /\ ~IsAbsent(df[i].scores[cat][judge_idx]))
    IN  [k \in DOMAIN scored |->
            [start_number |-> df[scored[k]].start_number,
             total |-> JudgeTotal(df[scored[k]], judge_idx, Len(Categories))]]

Totals(df, judge_idx) ==
    [i \in DOMAIN df |-> [start_number |-> df[i].start_number,
                          total |-> JudgeTotal(df[i], judge_idx, Len(Categories))]]

\* key (-total, start_number) of x is smaller than that of y
TotalBefore(x, y) ==
    \/ RatLess(y.total, x.total)
    \/ x.total = y.total /\ x.start_number < y.start_number

RECURSIVE SortTotals(_)
\* totals.sort(key=lambda x: (-x[1], x[0])), a stable sort
SortTotals(totals) ==
    IF totals = <<>> THEN <<>>
    ELSE LET front == SortTotals(SubSeq(totals, 1, Len(totals) - 1))
             x     == totals[Len(totals)]
             keep  == Cardinality({i \in DOMAIN front : ~TotalBefore(x, front[i])})
         IN  SubSeq(front, 1, keep) \o <<x>> \o SubSeq(front, keep + 1, Len(front))

RECURSIVE RankAtDense(_, _)
\* mutant of RankAt: ranks are compacted, the next lower total gets the next rank
RankAtDense(sorted, position) ==
    IF position = 1 THEN 1
    ELSE IF sorted[position].total = sorted[position - 1].total
    THEN RankAtDense(sorted, position - 1)
    ELSE RankAtDense(sorted, position - 1) + 1

RECURSIVE RankAt(_, _)
\* the rank given at a position of the sorted totals: equal totals share the
\* rank of the first of them
RankAt(sorted, position) ==
    IF position > 1 /\ sorted[position].total = sorted[position - 1].total
    THEN RankAt(sorted, position - 1)
    ELSE position

\* ranking[start_number] = rank, written in sorted order
RankingOf(sorted) ==
    [id \in {sorted[p].start_number : p \in DOMAIN sorted} |->
        RankAt(sorted, Max({p \in DOMAIN sorted : sorted[p].start_number = id}))]

\* [judge_rankings, num_judges]; num_judges is len(judge_names)
build_judge_rankings_for_subset(df) ==
    LET num_judges == IF df = <<>> THEN 0 ELSE FirstJudgeCount(df, 1)
    IN  [judge_rankings |-> [judge_idx \in 1..num_judges |->
                                RankingOf(SortTotals(Totals(df, judge_idx)))],
         num_judges |-> num_judges]

\* df_subset["start_number"].tolist()
StartNumbers(df) == [i \in DOMAIN df |-> df[i].start_number]

NoFrame == [none |-> TRUE, rows |-> <<>>]

RECURSIVE FrameRows(_, _)
\* the rows of the result frame: place, tie label and id of every member of
\* every record, with the rank each judge gave
FrameRows(records, jr) ==
    IF records = <<>> THEN <<>>
    ELSE LET record == Head(records)
         IN  [k \in DOMAIN record.couples |->
                 [place |-> record.place,
                  tie   |-> Len(record.couples) > 1,
                  start_number |-> record.couples[k],
                  ranks |-> [j \in DOMAIN jr |->
                              IF record.couples[k] \in DOMAIN jr[j]
                              THEN Some(jr[j][record.couples[k]]) ELSE Absent]]]
             \o FrameRows(Tail(records), jr)

compute_majority_system_results(df) ==
    IF df = <<>> THEN NoFrame
    ELSE LET built == build_judge_rankings_for_subset(df)
         IN  IF built.judge_rankings = <<>> \/ built.num_judges = 0 THEN NoFrame
             ELSE LET placed == determine_majority_placements(
                                    StartNumbers(df), built.judge_rankings, built.num_judges)
                  IN  IF placed.records = <<>> THEN NoFrame
                      ELSE [none |-> FALSE,
                            rows |-> FrameRows(placed.records, built.judge_rankings)]

(***************************************************************************)
(* combine_rounds_for_majority.                                            *)
(***************************************************************************)
\* scores[idx] if idx < len(scores) else None
ValAt(scores, idx) == IF idx <= Len(scores) THEN scores[idx] ELSE Absent

\* mutant of MergeSlot: a slot with a value in one round only is absent
MergeSlotBothOnly(val_a, val_b) ==
    IF IsAbsent(val_a) \/ IsAbsent(val_b) THEN Absent
    ELSE Some(FloatAdd(FloatAdd(RatOfInt(0), Value(val_a)), Value(val_b)))

\* one slot of combined_scores
MergeSlot(val_a, val_b) ==
    IF IsAbsent(val_a) /\ IsAbsent(val_b) THEN Absent
    ELSE LET total   == RatOfInt(0)
             with_a  == IF IsAbsent(val_a) THEN total ELSE FloatAdd(total, Value(val_a))
             with_b  == IF IsAbsent(val_b) THEN with_a ELSE FloatAdd(with_a, Value(val_b))
         IN  Some(with_b)

\* mutant of MergeScores: for idx in range(len(scores_a))
MergeScoresBaseLength(scores_a, scores_b) ==
    [idx \in 1..Len(scores_a) |-> MergeSlot(ValAt(scores_a, idx), ValAt(scores_b, idx))]

\* combined_scores of one category
MergeScores(scores_a, scores_b) ==
    LET max_len == Max({Len(scores_a), Len(scores_b)})
    IN  [idx \in 1..max_len |-> MergeSlot(ValAt(scores_a, idx), ValAt(scores_b, idx))]

\* {str(row["start_number"]): row for _, row in df.iterrows()}: the last row of an id
RowMap(df) ==
    [id \in {df[i].start_number : i \in DOMAIN df} |->
        df[Max({i \in DOMAIN df : df[i].start_number = id})]]

RECURSIVE SortedIds(_)
\* sorted(ids)
SortedIds(S) ==
    IF S = {} THEN <<>>
    ELSE LET m == CHOOSE x \in S : \A y \in S : x <= y
         IN  <<m>> \o SortedIds(S \ {m})

\* combined = base_row.copy() with every category's scores merged
MergeRows(base_row, other_row) ==
    [base_row EXCEPT !.scores =
        [cat \in CategorySet |-> MergeScores(base_row.scores[cat], other_row.scores[cat])]]

\* mutant of combine_rounds_for_majority: only the start numbers of the
\* current round are combined
combine_rounds_current_only(data_current, data_other) ==
    LET df_current  == prepare_couples_data(data_current)
        df_other    == prepare_couples_data(data_other)
        current_map == RowMap(df_current)
        other_map   == RowMap(df_other)
        all_start_numbers == SortedIds(DOMAIN current_map)
    IN  IF df_current = <<>> THEN df_other
        ELSE IF df_other = <<>> THEN df_current
        ELSE [k \in DOMAIN all_start_numbers |->
                LET start_number == all_start_numbers[k]
                IN  IF start_number \notin DOMAIN other_map THEN current_map[start_number]
                    ELSE MergeRows(current_map[start_number], other_map[start_number])]

combine_rounds_for_majority(data_current, data_other) ==
    LET df_current  == prepare_couples_data(data_current)
        df_other    == prepare_couples_data(data_other)
        current_map == RowMap(df_current)
        other_map   == RowMap(df_other)
        all_start_numbers == SortedIds(DOMAIN current_map \cup DOMAIN other_map)
    IN  IF df_current = <<>> THEN df_other
        ELSE IF df_other = <<>> THEN df_current
        ELSE [k \in DOMAIN all_start_numbers |->
                LET start_number == all_start_numbers[k]
                IN  IF start_number \notin DOMAIN current_map THEN other_map[start_number]
                    ELSE IF start_number \notin DOMAIN other_map THEN current_map[start_number]
                    ELSE MergeRows(current_map[start_number], other_map[start_number])]

(***************************************************************************)
(* scoring_systems: the three aggregation policies.  categories is the     *)
(* "categories" field of a couple of the raw data.                         *)
(***************************************************************************)
CATEGORY_CODES == <<"BBW", "BBM", "LF", "DF", "MI">>

\* [s for s in scores if s is not None]
NumericScores(scores) ==
    LET present == SelectSeq(scores, LAMBDA s : ~IsAbsent(s))
    IN  [k \in DOMAIN present |-> Value(present[k])]

RECURSIVE SortRats(_)
\* sorted(values)
SortRats(values) ==
    IF values = <<>> THEN <<>>
    ELSE LET front == SortRats(SubSeq(values, 1, Len(values) - 1))
             x     == values[Len(values)]
             keep  == Cardinality({i \in DOMAIN front : ~RatLess(x, front[i])})
         IN  SubSeq(front, 1, keep) \o <<x>> \o SubSeq(front, keep + 1, Len(front))

\* statistics.median of a non-empty list
Median(values) ==
    LET s == SortRats(values)
        n == Len(s)
    IN  IF n % 2 = 1 THEN s[(n + 1) \div 2]
        ELSE FloatDiv(FloatAdd(s[n \div 2], s[n \div 2 + 1]), RatOfInt(2))

\* weight = 1.0 / (1.0 + diff ** 2)
MedianWeight(value, med) ==
    LET diff == RatAbs(FloatSub(value, med))
    IN  FloatDiv(RatOfInt(1), FloatAdd(RatOfInt(1), FloatMul(diff, diff)))

\* mutant of _scaled_median_from_scores: the weighted sum is not divided by
\* the total weight
_scaled_median_undivided(scores) ==
    LET numeric_scores == NumericScores(scores)
    IN  IF numeric_scores = <<>> THEN Absent
        ELSE LET med     == Median(numeric_scores)
                 weights == [k \in DOMAIN numeric_scores |->
                                MedianWeight(numeric_scores[k], med)]
                 weighted_values == [k \in DOMAIN numeric_scores |->
                                        FloatMul(numeric_scores[k], weights[k])]
                 total_weight == FloatSum(weights)
             IN  IF total_weight = RatOfInt(0) THEN Absent
                 ELSE Some(FloatSum(weighted_values))

_scaled_median_from_scores(scores) ==
    LET numeric_scores == NumericScores(scores)
    IN  IF numeric_scores = <<>> THEN Absent
        ELSE LET med     == Median(numeric_scores)
                 weights == [k \in DOMAIN numeric_scores |->
                                MedianWeight(numeric_scores[k], med)]
                 weighted_values == [k \in DOMAIN numeric_scores |->
                                        FloatMul(numeric_scores[k], weights[k])]
                 total_weight == FloatSum(weights)
             IN  IF total_weight = RatOfInt(0) THEN Absent
                 ELSE Some(FloatDiv(FloatSum(weighted_values), total_weight))

\* sum(numeric_scores) / len(numeric_scores) of a list without None
AverageOf(numeric_scores) ==
    IF numeric_scores = <<>> THEN Absent
    ELSE Some(FloatDiv(FloatSum(numeric_scores), RatOfInt(Len(numeric_scores))))

_simple_average(scores) == AverageOf(NumericScores(scores))

\* mutant of _trimmed_average: the scores are not sorted before the slice
_trimmed_average_unsorted(scores) ==
    LET numeric_scores == NumericScores(scores)
    IN  IF Len(numeric_scores) <= 2 THEN AverageOf(numeric_scores)
        ELSE AverageOf(SubSeq(numeric_scores, 2, Len(numeric_scores) - 1))

_trimmed_average(scores) ==
    LET numeric_scores == SortRats(NumericScores(scores))
    IN  IF Len(numeric_scores) <= 2 THEN AverageOf(numeric_scores)
        ELSE AverageOf(SubSeq(numeric_scores, 2, Len(numeric_scores) - 1))

\* numeric_scores = [_parse_score(score) for score in judge_scores]
ParsedJudgeScores(judge_scores) ==
    [k \in DOMAIN judge_scores |-> _parse_score(judge_scores[k])]

\* mutant of TotalOf: an absent category aggregate counts as 0
TotalOfZeroForAbsent(per_category) ==
    Some(FloatSum([k \in DOMAIN CATEGORY_CODES |->
                      IF IsAbsent(per_category[CATEGORY_CODES[k]]) THEN RatOfInt(0)
                      ELSE Value(per_category[CATEGORY_CODES[k]])]))

\* total_score = sum(available_scores) if available_scores else None
TotalOf(per_category) ==
    LET values == [k \in DOMAIN CATEGORY_CODES |-> per_category[CATEGORY_CODES[k]]]
        available_scores == NumericScores(values)
    IN  IF available_scores = <<>> THEN Absent ELSE Some(FloatSum(available_scores))

\* the result of a policy that raised
PolicyRaised ==
    [raised |-> TRUE, per_category |-> [code \in Range(CATEGORY_CODES) |-> Absent],
     total |-> Absent]

\* the body shared by the three policies, Policy the per-category function
AggregateWith(Policy(_), categories) ==
    IF \E code \in Range(CATEGORY_CODES) : \E k \in DOMAIN categories[code] :
           ParseScoreRaises(categories[code][k])
    THEN PolicyRaised
    ELSE LET per_category == [code \in Range(CATEGORY_CODES) |->
                                 Policy(ParsedJudgeScores(categories[code]))]
         IN  [raised |-> FALSE, per_category |-> per_category,
              total |-> TotalOf(per_category)]

scaled_median(categories) == AggregateWith(_scaled_median_from_scores, categories)
simple_average_score(categories) == AggregateWith(_simple_average, categories)
trimmed_average_score(categories) == AggregateWith(_trimmed_average, categories)

(***************************************************************************)
(* Inputs.                                                                 *)
(***************************************************************************)
Ascending(n) == [i \in 1..n |-> i]
Descending(n) == [i \in 1..n |-> n + 1 - i]

\* the rankings a judge can give n competitors: rank = 1 + number of
\* competitors ranked strictly better (what build_judge_rankings_for_subset
\* produces)
SkipRankings(n) ==
    {r \in [1..n -> 1..n] :
        \A a \in 1..n : r[a] = 1 + Cardinality({b \in 1..n : r[b] < r[a]})}

\* number of competitors that share their rank with a smaller id
SharedRanks(r) == Cardinality(DOMAIN r) - Cardinality({r[a] : a \in DOMAIN r})

RECURSIVE SumShared(_, _)
SumShared(jr, k) == IF k = 0 THEN 0 ELSE SumShared(jr, k - 1) + SharedRanks(jr[k])

RECURSIVE RankingCode(_, _)
\* a number that orders the rankings of n competitors, from the ranks of 1..k
RankingCode(r, k) ==
    IF k = 0 THEN 0 ELSE RankingCode(r, k - 1) * (Len(r) + 1) + r[k]

\* ranking r may follow the rankings p in a profile
MayFollow(p, r) ==
    p = <<>> \/ RankingCode(p[Len(p)], Len(r)) <= RankingCode(r, Len(r))

RECURSIVE Profiles(_, _, _)
\* the lists of J rankings of n competitors in which at most budget
\* competitors share a rank, one list for every collection of rankings (the
\* judges are only counted, so their order makes no difference)
Profiles(n, J, budget) ==
    IF J = 0 THEN {<<>>}
    ELSE UNION {{Append(p, r) : p \in {q \in Profiles(n, J - 1, budget - SharedRanks(r)) :
                                          MayFollow(q, r)}} :
                    r \in {q \in SkipRankings(n) : SharedRanks(q) <= budget}}

RECURSIVE SubsetsUpTo(_, _)
\* the subsets of S with at most k elements
SubsetsUpTo(S, k) ==
    IF k = 0 \/ S = {} THEN {{}}
    ELSE LET x == CHOOSE y \in S : TRUE
         IN  SubsetsUpTo(S \ {x}, k)
             \cup {T \cup {x} : T \in SubsetsUpTo(S \ {x}, k - 1)}

\* rankings with the entries <<judge, id>> of missing dropped
DropEntries(jr, missing) ==
    [j \in DOMAIN jr |-> [a \in {b \in DOMAIN jr[j] : <<j, b>> \notin missing} |-> jr[j][a]]]

NoTieResult == [groups |-> <<>>, info |-> EmptyDict, calls |-> {}]

\* the raw judge scores a round's data is drawn from: numbers written with a
\* decimal point or comma, and tokens that parse to nothing
NumericTokens == {StrTok(<<"1">>), StrTok(<<"0", ",", "5">>)}
AbsentTokens == {NoneTok, StrTok(<<"x">>)}
TokenCost(t) == IF t \in NumericTokens THEN 1 ELSE 2

RECURSIVE TokenLists(_)
\* the lists of tokens of cost at most budget
TokenLists(budget) ==
    {<<>>} \cup
    UNION {{<<t>> \o l : l \in TokenLists(budget - TokenCost(t))} :
              t \in {u \in NumericTokens \cup AbsentTokens : TokenCost(u) <= budget}}

RECURSIVE ListCost(_)
ListCost(l) == IF l = <<>> THEN 0 ELSE TokenCost(Head(l)) + ListCost(Tail(l))

\* a judge_scores list of category k: a list outside the first category costs one more
FillCost(l, k) == IF l = <<>> THEN 0 ELSE ListCost(l) + (IF k = 1 THEN 0 ELSE 1)

RECURSIVE CategoryFills(_, _)
\* the judge_scores lists of the categories 1..k, of cost at most budget
CategoryFills(k, budget) ==
    IF k = 0 THEN {<<>>}
    ELSE UNION {{Append(f, l) : f \in CategoryFills(k - 1, budget - FillCost(l, k))} :
                   l \in {m \in TokenLists(budget) : FillCost(m, k) <= budget}}

RECURSIVE FillsCost(_, _)
FillsCost(f, k) == IF k = 0 THEN 0 ELSE FillsCost(f, k - 1) + FillCost(f[k], k)

RECURSIVE CoupleFills(_, _)
\* the categories of n couples, each couple costing one plus its lists
CoupleFills(n, budget) ==
    IF n = 0 THEN {<<>>}
    ELSE UNION {{Append(cs, f) : cs \in CoupleFills(n - 1, budget - 1 - FillsCost(f, Len(Categories)))} :
                   f \in CategoryFills(Len(Categories), budget - n)}

\* the couples of a round with the given start numbers and categories
RoundOf(ids, fills) ==
    [i \in DOMAIN ids |->
        [start_number |-> ids[i],
         categories |-> [cat \in CategorySet |->
                            fills[i][CHOOSE k \in DOMAIN Categories : Categories[k] = cat]]]]

\* the rounds of at most MaxComp couples and cost at most budget, the rows in
\* one of the given orders of the start numbers
RoundsIn(Orders(_), budget) ==
    UNION {{RoundOf(ids, fills) : ids \in Orders(n), fills \in CoupleFills(n, budget)} :
              n \in {m \in 0..MaxComp : m <= budget}}

InOrder(n) == {Ascending(n)}
InEitherOrder(n) == {Ascending(n), Descending(n)}

RECURSIVE RoundCost(_)
RoundCost(data) ==
    IF data = <<>> THEN 0
    ELSE 1 + FillsCost([k \in DOMAIN Categories |-> Head(data).categories[Categories[k]]],
                       Len(Categories))
           + RoundCost(Tail(data))

\* the raw judge scores the aggregation policies are run on: plain numerals
\* and null; and empty, blank and digitless strings, a numeral with a blank
\* inside, and JSON numbers, one of them an int out of the float range
PlainTokens ==
    {StrTok(<<"1">>), StrTok(<<"0", ",", "1">>), NoneTok}
OddTokens ==
    {StrTok(<<"x">>), StrTok(<<>>), StrTok(<<" ">>), StrTok(<<"1", " ", "2">>),
     NumTok(3), NumTok(Pow2(MaxExponent))}
ScoreTokenCost(t) == IF t \in PlainTokens THEN 1 ELSE 2

\* the lists of these tokens of cost at most budget, for every budget
ScoreLists[budget \in 0..MaxScoreCells] ==
    {<<>>} \cup
    UNION {{<<t>> \o l : l \in ScoreLists[budget - ScoreTokenCost(t)]} :
              t \in {u \in PlainTokens \cup OddTokens : ScoreTokenCost(u) <= budget}}

RECURSIVE ScoreListCost(_)
ScoreListCost(l) ==
    IF l = <<>> THEN 0 ELSE ScoreTokenCost(Head(l)) + ScoreListCost(Tail(l))

\* a judge_scores list of category k: a list outside the first category costs one more
ScoreFillCost(l, k) == IF l = <<>> THEN 0 ELSE ScoreListCost(l) + (IF k = 1 THEN 0 ELSE 1)

\* the judge_scores lists of the categories 1..k, of cost at most budget
ScoreFills[k \in 0..Len(Categories), budget \in 0..MaxScoreCells] ==
    IF k = 0 THEN {<<>>}
    ELSE UNION {{Append(f, l) : f \in ScoreFills[k - 1, budget - ScoreFillCost(l, k)]} :
                   l \in {m \in ScoreLists[budget] : ScoreFillCost(m, k) <= budget}}

\* no round is loaded in a run of one function alone
NoRound ==
    /\ selected_data = <<>>
    /\ other_round_data = <<>>
    /\ df_subset = <<>>
    /\ scores_out = <<>>
    /\ result = NoFrame

(***************************************************************************)
(* Spec: one run of determine_majority_placements.  Init is the state      *)
(* after its first five statements; each action is one pass of the outer   *)
(* while loop, or the return.                                              *)
(***************************************************************************)
InitPlacement ==
    \E n \in 1..MaxComp, J \in 1..MaxCells :
      /\ n * J <= MaxCells
      /\ \E full \in Profiles(n, J, MaxCells - n * J) :
         \E missing \in SubsetsUpTo((1..J) \X (1..n),
                                   MaxCells - n * J - SumShared(full, J)) :
            judge_rankings = DropEntries(full, missing)
      /\ df_ids \in {Ascending(n), Descending(n)}
      /\ mode = "placement"
      /\ pc = "loop"
      /\ unplaced = df_ids
      /\ placement_records = <<>>
      /\ next_place = 1
      /\ passes = 0
      /\ tie_calls = {}
      /\ candidates = <<>>
      /\ tie_result = NoTieResult
      /\ NoRound

PlacementState ==
    [unplaced |-> unplaced, records |-> placement_records,
     next_place |-> next_place, raised |-> FALSE, calls |-> tie_calls]

SetPlacementState(st) ==
    /\ unplaced' = st.unplaced
    /\ placement_records' = st.records
    /\ next_place' = st.next_place
    /\ passes' = passes + 1
    /\ tie_calls' = st.calls
    /\ pc' = IF st.raised THEN "raised" ELSE "loop"
    /\ UNCHANGED <<mode, df_ids, judge_rankings, candidates, tie_result>>
    /\ UNCHANGED roundVars

\* a pass that breaks out of the for loop at the first threshold with a majority
MajorityStep ==
    /\ mode = "placement" /\ pc = "loop" /\ unplaced # <<>>
    /\ LET t == FirstThreshold(unplaced, judge_rankings, Len(df_ids), Len(judge_rankings))
       IN  /\ t # 0
           /\ SetPlacementState(MajorityPass(PlacementState, t, judge_rankings,
                                             Len(judge_rankings)))

\* a pass in which no threshold has a majority
FallbackStep ==
    /\ mode = "placement" /\ pc = "loop" /\ unplaced # <<>>
    /\ FirstThreshold(unplaced, judge_rankings, Len(df_ids), Len(judge_rankings)) = 0
    /\ SetPlacementState(FallbackPass(PlacementState, judge_rankings,
                                      Len(judge_rankings), Len(df_ids)))

\* while unplaced: ends; return placement_records
ReturnRecords ==
    /\ mode = "placement" /\ pc = "loop" /\ unplaced = <<>>
    /\ pc' = "done"
    /\ UNCHANGED <<mode, df_ids, judge_rankings, unplaced, placement_records,
                   next_place, passes, tie_calls, candidates, tie_result>>
    /\ UNCHANGED roundVars

NextPlacement == MajorityStep \/ FallbackStep \/ ReturnRecords

Spec == InitPlacement /\ [][NextPlacement]_vars

(***************************************************************************)
(* SpecTies: one call of resolve_ties on the whole competitor list.        *)
(***************************************************************************)
InitTies ==
    \E n \in 1..MaxComp, J \in 1..MaxTieCells :
      /\ n * J <= MaxTieCells
      /\ judge_rankings \in Profiles(n, J, (MaxTieCells - n * J) \div 2)
      /\ df_ids = Ascending(n)
      /\ candidates = df_ids
      /\ mode = "ties"
      /\ pc = "call"
      /\ unplaced = <<>>
      /\ placement_records = <<>>
      /\ next_place = 1
      /\ passes = 0
      /\ tie_calls = {}
      /\ tie_result = NoTieResult
      /\ NoRound

ResolveStep ==
    /\ mode = "ties" /\ pc = "call"
    /\ tie_result' = resolve_ties(candidates, judge_rankings)
    /\ pc' = "done"
    /\ UNCHANGED <<mode, df_ids, judge_rankings, unplaced, placement_records,
                   next_place, passes, tie_calls, candidates>>
    /\ UNCHANGED roundVars

NextTies == ResolveStep

SpecTies == InitTies /\ [][NextTies]_vars

(***************************************************************************)
(* SpecPipeline: the functions of the ranking engine applied to one round: *)
(* the aggregation policies to every couple of the raw data, then          *)
(* prepare_couples_data, compute_majority_system_results on the data       *)
(* frame, build_judge_rankings_for_subset on it, and                       *)
(* determine_majority_placements on what the builder returned.             *)
(***************************************************************************)
InitPipeline ==
    /\ selected_data \in RoundsIn(InOrder, MaxPipeCells)
    /\ other_round_data = <<>>
    /\ df_subset = <<>>
    /\ scores_out = <<>>
    /\ result = NoFrame
    /\ mode = "pipeline"
    /\ pc = "loaded"
    /\ df_ids = <<>>
    /\ judge_rankings = <<>>
    /\ unplaced = <<>>
    /\ placement_records = <<>>
    /\ next_place = 1
    /\ passes = 0
    /\ tie_calls = {}
    /\ candidates = <<>>
    /\ tie_result = NoTieResult

\* scaled_median, simple_average_score and trimmed_average_score of every couple
ScoreCouples ==
    /\ mode \in {"pipeline", "scoring"} /\ pc = "loaded"
    /\ scores_out' = [i \in DOMAIN selected_data |->
                         [scaled  |-> scaled_median(selected_data[i].categories),
                          simple  |-> simple_average_score(selected_data[i].categories),
                          trimmed |-> trimmed_average_score(selected_data[i].categories)]]
    /\ pc' = "scored"
    /\ UNCHANGED <<mode, selected_data, other_round_data, df_subset, result>>
    /\ UNCHANGED placeVars

PrepareData ==
    /\ mode \in {"pipeline", "scoring"} /\ pc = "scored"
    /\ df_subset' = prepare_couples_data(selected_data)
    /\ pc' = "prepared"
    /\ UNCHANGED <<mode, selected_data, other_round_data, scores_out, result>>
    /\ UNCHANGED placeVars

\* compute_majority_system_results(df_subset), the whole call
ComputeResults ==
    /\ mode \in {"pipeline", "combine"} /\ pc = "prepared"
    /\ result' = compute_majority_system_results(df_subset)
    /\ pc' = "computed"
    /\ UNCHANGED <<mode, selected_data, other_round_data, df_subset, scores_out>>
    /\ UNCHANGED placeVars

\* build_judge_rankings_for_subset(df_subset)
BuildRankings ==
    /\ mode \in {"pipeline", "combine"} /\ pc = "computed"
    /\ judge_rankings' = build_judge_rankings_for_subset(df_subset).judge_rankings
    /\ df_ids' = StartNumbers(df_subset)
    /\ pc' = "built"
    /\ UNCHANGED <<mode, unplaced, placement_records, next_place, passes, tie_calls,
                   candidates, tie_result>>
    /\ UNCHANGED roundVars

\* determine_majority_placements(df_subset, judge_rankings, judge_names) on what
\* the builder returned, the whole call; judge_names has one name per ranking
DeterminePlacements ==
    /\ mode \in {"pipeline", "combine"} /\ pc = "built"
    /\ LET st == determine_majority_placements(df_ids, judge_rankings, Len(judge_rankings))
       IN  /\ unplaced' = st.unplaced
           /\ placement_records' = st.records
           /\ next_place' = st.next_place
           /\ tie_calls' = st.calls
           /\ pc' = IF st.raised THEN "raised" ELSE "placed"
    /\ UNCHANGED <<mode, df_ids, judge_rankings, passes, candidates, tie_result>>
    /\ UNCHANGED roundVars

NextPipeline ==
    ScoreCouples \/ PrepareData \/ ComputeResults \/ BuildRankings \/ DeterminePlacements

SpecPipeline == InitPipeline /\ [][NextPipeline]_vars

(***************************************************************************)
(* SpecScoring: the aggregation policies and prepare_couples_data applied  *)
(* to the raw data of one couple.                                          *)
(***************************************************************************)
InitScoring ==
    /\ selected_data \in {RoundOf(<<1>>, <<f>>) :
                             f \in ScoreFills[Len(Categories), MaxScoreCells]}
    /\ other_round_data = <<>>
    /\ df_subset = <<>>
    /\ scores_out = <<>>
    /\ result = NoFrame
    /\ mode = "scoring"
    /\ pc = "loaded"
    /\ df_ids = <<>>
    /\ judge_rankings = <<>>
    /\ unplaced = <<>>
    /\ placement_records = <<>>
    /\ next_place = 1
    /\ passes = 0
    /\ tie_calls = {}
    /\ candidates = <<>>
    /\ tie_result = NoTieResult

NextScoring == ScoreCouples \/ PrepareData

SpecScoring == InitScoring /\ [][NextScoring]_vars

(***************************************************************************)
(* SpecCombine: two rounds combined by combine_rounds_for_majority, and    *)
(* the combined data frame ranked.                                         *)
(***************************************************************************)
InitCombine ==
    /\ selected_data \in RoundsIn(InOrder, MaxCombineCells)
    /\ other_round_data \in RoundsIn(InEitherOrder, MaxCombineCells - RoundCost(selected_data))
    /\ df_subset = <<>>
    /\ scores_out = <<>>
    /\ result = NoFrame
    /\ mode = "combine"
    /\ pc = "loaded"
    /\ df_ids = <<>>
    /\ judge_rankings = <<>>
    /\ unplaced = <<>>
    /\ placement_records = <<>>
    /\ next_place = 1
    /\ passes = 0
    /\ tie_calls = {}
    /\ candidates = <<>>
    /\ tie_result = NoTieResult

CombineRounds ==
    /\ mode = "combine" /\ pc = "loaded"
    /\ df_subset' = combine_rounds_for_majority(selected_data, other_round_data)
    /\ pc' = "prepared"
    /\ UNCHANGED <<mode, selected_data, other_round_data, scores_out, result>>
    /\ UNCHANGED placeVars

NextCombine == CombineRounds \/ ComputeResults \/ BuildRankings \/ DeterminePlacements

SpecCombine == InitCombine /\ [][NextCombine]_vars

(***************************************************************************)
(* Properties of the placement run (Spec).                                 *)
(***************************************************************************)
Done == mode = "placement" /\ pc = "done"

\* the positions <<record, member>> at which id occurs in the records
Occurrences(id) ==
    {<<i, j>> \in (1..Len(placement_records)) \X (1..Len(df_ids)) :
        /\ j <= Len(placement_records[i].couples)
        /\ placement_records[i].couples[j] = id}

RECURSIVE MembersBefore(_)
\* number of competitors in the records 1..(i - 1)
MembersBefore(i) ==
    IF i <= 1 THEN 0
    ELSE MembersBefore(i - 1) + Len(placement_records[i - 1].couples)

\* every ranking ranks every competitor, with a rank in 1..N
TotalRankings ==
    \A k \in DOMAIN judge_rankings :
        /\ DOMAIN judge_rankings[k] = Range(df_ids)
        /\ \A a \in Range(df_ids) : judge_rankings[k][a] \in 1..Len(df_ids)

\* C1: the returned records contain every input competitor id exactly once:
\* no id is in two records or twice in one record, and none is omitted.
C1_EveryIdExactlyOnce ==
    Done => /\ \A id \in Range(df_ids) : Cardinality(Occurrences(id)) = 1
            /\ \A i \in DOMAIN placement_records :
                  Range(placement_records[i].couples) \subseteq Range(df_ids)

C1_Witness ==
    /\ Done
    /\ Len(df_ids) >= 3
    /\ Len(placement_records) >= 2
    /\ \E i \in DOMAIN placement_records : Len(placement_records[i].couples) >= 2

\* C2: the place of each returned record is 1 plus the number of competitors
\* in all earlier records (first record: place 1; a record of k members at
\* place N is followed by one at place N + k), so places strictly increase.
C2_PlaceCountsEarlierMembers ==
    Done => /\ \A i \in DOMAIN placement_records :
                  placement_records[i].place = 1 + MembersBefore(i)
            /\ \A i \in DOMAIN placement_records : \A j \in DOMAIN placement_records :
                  i < j => placement_records[i].place < placement_records[j].place

C2_Witness ==
    /\ Done
    /\ \E i \in DOMAIN placement_records :
          /\ i + 1 \in DOMAIN placement_records
          /\ Len(placement_records[i].couples) = 2
          /\ placement_records[i + 1].place = placement_records[i].place + 2

\* number of judges that give competitor x rank 1
FirstPlaceVotes(x) ==
    Cardinality({k \in DOMAIN judge_rankings :
                    x \in DOMAIN judge_rankings[k] /\ judge_rankings[k][x] = 1})

\* x is the only competitor whom strictly more than half of the judges rank 1
SoleFirstMajority(x) ==
    /\ x \in Range(df_ids)
    /\ 2 * FirstPlaceVotes(x) > Len(judge_rankings)
    /\ \A y \in Range(df_ids) \ {x} : 2 * FirstPlaceVotes(y) <= Len(judge_rankings)

\* C3: if strictly more than half of the judges give X rank 1 and no other
\* competitor has such a majority, the first record has place 1 and holds X alone.
C3_FirstMajorityPlacedFirstAlone ==
    Done => \A x \in Range(df_ids) :
                SoleFirstMajority(x) =>
                    /\ placement_records[1].place = 1
                    /\ placement_records[1].couples = <<x>>

\* two of three judges rank X first, the third ranks it last of three
C3_Witness ==
    /\ Done
    /\ Len(df_ids) = 3
    /\ \E x \in Range(df_ids) :
          /\ SoleFirstMajority(x)
          /\ Len(judge_rankings) = 3
          /\ FirstPlaceVotes(x) = 2
          /\ TotalRankings
          /\ \E k \in DOMAIN judge_rankings : judge_rankings[k][x] = 3

\* exactly two competitors, every judge ranks both, and the judges split in half
EvenSplitOfTwo ==
    /\ Range(df_ids) = {1, 2}
    /\ TotalRankings
    /\ LET forA == {k \in DOMAIN judge_rankings : judge_rankings[k][1] < judge_rankings[k][2]}
           forB == {k \in DOMAIN judge_rankings : judge_rankings[k][2] < judge_rankings[k][1]}
       IN  /\ Cardinality(forA) = Cardinality(forB)
           /\ Cardinality(forA) + Cardinality(forB) = Len(judge_rankings)

\* C4: two competitors and an even number of judges split exactly in half
\* give a single record with place 1 that contains both competitors.
C4_EvenSplitSharesFirstPlace ==
    (Done /\ EvenSplitOfTwo) =>
        /\ Len(placement_records) = 1
        /\ placement_records[1].place = 1
        /\ Len(placement_records[1].couples) = 2
        /\ Range(placement_records[1].couples) = {1, 2}

C4_Witness ==
    Done /\ EvenSplitOfTwo /\ Len(judge_rankings) = 4 /\ Len(placement_records) = 1

\* judge k gives a and b the same rank (a missing rank counts as "last")
SameRank(k, a, b) ==
    \/ a \notin DOMAIN judge_rankings[k] /\ b \notin DOMAIN judge_rankings[k]
    \/ /\ a \in DOMAIN judge_rankings[k] /\ b \in DOMAIN judge_rankings[k]
       /\ judge_rankings[k][a] = judge_rankings[k][b]

\* C6: head_to_head(a, b) = (wins_a, wins_b) with wins_a + wins_b the number
\* of judges whose ranks for a and b differ; head_to_head(b, a) is the swapped
\* pair; and 0-0 only when every judge gives a and b the same rank.
C6_HeadToHeadCountsDifferingJudges ==
    \A a \in Range(df_ids) : \A b \in Range(df_ids) :
        LET w == head_to_head(a, b, judge_rankings)
            v == head_to_head(b, a, judge_rankings)
        IN  /\ w[1] + w[2] = Cardinality({k \in DOMAIN judge_rankings : ~SameRank(k, a, b)})
            /\ v = <<w[2], w[1]>>
            /\ (w = <<0, 0>> => \A k \in DOMAIN judge_rankings : SameRank(k, a, b))

C6_Witness ==
    /\ Done
    /\ \E a \in Range(df_ids) : \E b \in Range(df_ids) :
          /\ a # b
          /\ head_to_head(a, b, judge_rankings) = <<1, 0>>
          /\ Len(judge_rankings) = 2
    /\ \E a \in Range(df_ids) : \E b \in Range(df_ids) :
          /\ a # b
          /\ head_to_head(a, b, judge_rankings) = <<0, 0>>

\* C7: the run terminates with the unplaced pool empty: it never raises,
\* every pass of the outer loop places at least one competitor, so there are
\* at most N passes, and every recursive call of resolve_ties is on a strictly
\* smaller candidate list.
C7_TerminatesWithinNPasses ==
    /\ pc \in {"loop", "done"}
    /\ (pc = "loop" /\ unplaced # <<>>) =>
          LET after == PlacementPass(PlacementState, judge_rankings,
                                     Len(judge_rankings), Len(df_ids))
          IN  ~after.raised /\ Len(after.unplaced) < Len(unplaced)
    /\ pc = "done" => unplaced = <<>>
    /\ passes + Len(unplaced) <= Len(df_ids)
    /\ \A call \in tie_calls : call[2] < call[1]

C7_Witness ==
    /\ Done
    /\ Len(df_ids) >= 3
    /\ passes >= 1
    /\ tie_calls # {}

\* the number of judges who give c a rank <= t
JudgesWithin(c, t) ==
    Cardinality({k \in DOMAIN judge_rankings :
                    c \in DOMAIN judge_rankings[k] /\ judge_rankings[k][c] <= t})

\* strictly more than half of the judges give c a rank <= t
QualifiesAt(c, t) == 2 * JudgesWithin(c, t) > Len(judge_rankings)

HasThreshold(c) == \E t \in 1..Len(df_ids) : QualifiesAt(c, t)

\* t*(c): the smallest threshold at which c qualifies
SmallestThreshold(c) ==
    CHOOSE t \in 1..Len(df_ids) :
        QualifiesAt(c, t) /\ \A u \in 1..(t - 1) : ~QualifiesAt(c, u)

\* the index of the record that holds c
RecordOf(c) ==
    CHOOSE i \in DOMAIN placement_records : c \in Range(placement_records[i].couples)

\* the record of x comes before the record of y, with a strictly smaller place
PlacedBefore(x, y) ==
    /\ RecordOf(x) < RecordOf(y)
    /\ placement_records[RecordOf(x)].place < placement_records[RecordOf(y)].place

\* C15: every competitor in a majority record has a smallest qualifying
\* threshold t* (strictly more than half of the judges rank it <= t*) and was
\* placed at that threshold; every competitor that has one is in a majority
\* record; if t*(x) < t*(y), the record of x comes before the record of y
\* with a strictly smaller place; and a competitor without such a threshold
\* is placed after every competitor that has one.
C15_PlacedAtSmallestThreshold ==
    Done =>
        /\ \A c \in Range(df_ids) :
               LET rec == placement_records[RecordOf(c)]
               IN  /\ HasThreshold(c) <=> rec.summary.kind = "Majority"
                   /\ HasThreshold(c) => rec.summary.threshold = SmallestThreshold(c)
        /\ \A x, y \in Range(df_ids) :
               /\ (HasThreshold(x) /\ HasThreshold(y)
                      /\ SmallestThreshold(x) < SmallestThreshold(y)) => PlacedBefore(x, y)
               /\ (HasThreshold(x) /\ ~HasThreshold(y)) => PlacedBefore(x, y)

\* two majority records of different thresholds, one reached by exactly half
\* of the judges at a smaller threshold, and a fallback record
C15_Witness ==
    /\ Done
    /\ \E x, y, z \in Range(df_ids) :
          /\ HasThreshold(x) /\ HasThreshold(y) /\ ~HasThreshold(z)
          /\ SmallestThreshold(x) < SmallestThreshold(y)
          /\ 2 * JudgesWithin(y, SmallestThreshold(x)) = Len(judge_rankings)
          /\ PlacedBefore(x, y) /\ PlacedBefore(y, z)

\* the ids the notes of c in its record name: the candidates c was handed to
\* the tie resolver with
ResolvedWith(c) ==
    LET info == placement_records[RecordOf(c)].tie_info
    IN  IF c \in DOMAIN info
        THEN {info[c][k][2] : k \in {j \in DOMAIN info[c] :
                                        info[c][j][1] \in {"vs", "Head-to-head"}}}
        ELSE {}

\* C16: among the competitors that first qualify at the same threshold t, one
\* with strictly more judges ranking it <= t has a strictly smaller place
\* than one with fewer; the competitors of one record, and the competitors
\* handed together to the tie resolver, first qualify at the same threshold
\* with equal counts.
C16_GreaterCountPlacedFirst ==
    Done =>
        \A x, y \in {c \in Range(df_ids) : HasThreshold(c)} :
            LET t == SmallestThreshold(x)
            IN  /\ (SmallestThreshold(y) = t /\ JudgesWithin(x, t) > JudgesWithin(y, t)) =>
                       PlacedBefore(x, y)
                /\ (RecordOf(x) = RecordOf(y) \/ y \in ResolvedWith(x)) =>
                       /\ SmallestThreshold(y) = t
                       /\ JudgesWithin(x, t) = JudgesWithin(y, t)

\* two competitors that first qualify at the same threshold, above 1, with
\* different counts, and a third one placed later
C16_Witness ==
    /\ Done
    /\ Len(df_ids) >= 3
    /\ \E x, y \in {c \in Range(df_ids) : HasThreshold(c)} :
          LET t == SmallestThreshold(x)
          IN  /\ t > 1
              /\ SmallestThreshold(y) = t
              /\ JudgesWithin(x, t) > JudgesWithin(y, t)
              /\ PlacedBefore(x, y)

\* sum of the ranks the judges give c, a judge without a rank for c counting
\* as one more than the number of competitors; the mean rank is this sum
\* divided by the number of judges
RankSum(c) == SumRanks(c, judge_rankings, Len(judge_rankings), Len(df_ids) + 1)

\* C23: when no threshold up to the competitor count produces a qualifier,
\* the remaining competitors are placed in ascending order of their mean
\* rank across judges, and competitors of exactly equal mean rank are placed
\* together in one record at the same place.
C23_FallbackByMeanRank ==
    Done =>
        \A x, y \in {c \in Range(df_ids) : ~HasThreshold(c)} :
            /\ RankSum(x) < RankSum(y) => PlacedBefore(x, y)
            /\ RankSum(x) = RankSum(y) => RecordOf(x) = RecordOf(y)

\* every judge ranks a strictly ahead of b, both having a rank
Unanimous(a, b) ==
    \A k \in DOMAIN judge_rankings :
        /\ a \in DOMAIN judge_rankings[k] /\ b \in DOMAIN judge_rankings[k]
        /\ judge_rankings[k][a] < judge_rankings[k][b]

\* C27: if every judge gives competitor a a strictly smaller rank than
\* competitor b, a is in a strictly earlier record than b with a strictly
\* smaller place, so the two never share a record, whatever the number of
\* other competitors.
C27_UnanimityIsRespected ==
    Done => \A a, b \in Range(df_ids) : Unanimous(a, b) => PlacedBefore(a, b)

\* three judges agree on a before b but not on a third competitor, who
\* shares a record
C27_Witness ==
    /\ Done
    /\ Len(judge_rankings) >= 3
    /\ \E a, b, c \in Range(df_ids) :
          /\ Unanimous(a, b) /\ PlacedBefore(a, b)
          /\ c \notin {a, b}
          /\ ~Unanimous(a, c) /\ ~Unanimous(c, a)
          /\ ~Unanimous(b, c) /\ ~Unanimous(c, b)

\* every ranking gives every competitor a rank in 1..N
CompleteRankings ==
    \A k \in DOMAIN judge_rankings :
        /\ DOMAIN judge_rankings[k] = Range(df_ids)
        /\ \A c \in Range(df_ids) : judge_rankings[k][c] \in 1..Len(df_ids)

\* C28: with at least one judge and every ranking giving every competitor a
\* rank between 1 and N, the average-rank fallback is never reached: at
\* threshold N every unplaced competitor qualifies, so every record is a
\* majority record.
C28_NoFallbackWithCompleteRankings ==
    (Done /\ Len(judge_rankings) >= 1 /\ CompleteRankings) =>
        \A i \in DOMAIN placement_records :
            placement_records[i].summary.kind = "Majority"

\* complete rankings, and a competitor that qualifies only at threshold N
C28_Witness ==
    /\ Done /\ CompleteRankings
    /\ Len(df_ids) >= 3
    /\ \E c \in Range(df_ids) :
          /\ SmallestThreshold(c) = Len(df_ids)
          /\ placement_records[RecordOf(c)].summary.threshold = Len(df_ids)

(***************************************************************************)
(* Properties of the tie resolver (SpecTies).                              *)
(***************************************************************************)
TiesDone == mode = "ties" /\ pc = "done"

\* C5: every group of more than one competitor returned by resolve_ties is a
\* genuine unresolvable tie: resolve_ties on that group alone returns it as
\* one single group, and a returned two-member group has an exactly split
\* head-to-head count.
C5_TiedGroupsAreGenuineTies ==
    TiesDone =>
        \A i \in DOMAIN tie_result.groups :
            LET group == tie_result.groups[i]
            IN  Len(group) > 1 =>
                  /\ resolve_ties(group, judge_rankings).groups = <<group>>
                  /\ Len(group) = 2 =>
                        LET w == head_to_head(group[1], group[2], judge_rankings)
                        IN  w[1] = w[2]

\* the number of judges that rank a strictly ahead of b
Prefers(a, b) == head_to_head(a, b, judge_rankings)[1]

\* C17: for exactly two tied candidates a and b, resolve_ties returns the two
\* singleton groups [winner], [loser] when one of them has more judge
\* preferences than the other in the head-to-head comparison, and one group
\* containing both only when the count is an exact split (0-0 included).
C17_TwoCandidatesHeadToHead ==
    (TiesDone /\ Len(candidates) = 2) =>
        LET a == candidates[1]
            b == candidates[2]
        IN  /\ Prefers(a, b) > Prefers(b, a) => tie_result.groups = << <<a>>, <<b>> >>
            /\ Prefers(b, a) > Prefers(a, b) => tie_result.groups = << <<b>>, <<a>> >>
            /\ tie_result.groups = <<candidates>> => Prefers(a, b) = Prefers(b, a)
            /\ Len(tie_result.groups) = 1 => tie_result.groups = <<candidates>>

\* the second candidate wins, not unanimously, and is ordered first
C17_Witness ==
    /\ TiesDone /\ Len(candidates) = 2
    /\ Prefers(candidates[1], candidates[2]) >= 1
    /\ Prefers(candidates[2], candidates[1]) > Prefers(candidates[1], candidates[2])
    /\ tie_result.groups = << <<candidates[2]>>, <<candidates[1]>> >>

\* the number of other candidates that c beats head-to-head
Beats(c) ==
    Cardinality({d \in Range(candidates) \ {c} : Prefers(c, d) > Prefers(d, c)})

\* C18: resolve_ties returns a result for every non-empty candidate list (its
\* groups hold every candidate exactly once), and for more than two
\* candidates that all beat the same number of other candidates head-to-head
\* it returns exactly one group with all candidates, without a recursive call.
C18_FullTieIsOneGroup ==
    TiesDone =>
        /\ Len(Flatten(tie_result.groups)) = Len(candidates)
        /\ Range(Flatten(tie_result.groups)) = Range(candidates)
        /\ (/\ Len(candidates) > 2
            /\ \A c, d \in Range(candidates) : Beats(c) = Beats(d))
           => /\ tie_result.groups = <<candidates>>
              /\ tie_result.calls = {}

\* three or more candidates in a cycle: each beats at least one other, all
\* beat the same number, and the result is the one group
C18_Witness ==
    /\ TiesDone /\ Len(candidates) > 2
    /\ \A c, d \in Range(candidates) : Beats(c) = Beats(d)
    /\ \A c \in Range(candidates) : Beats(c) >= 1
    /\ tie_result.groups = <<candidates>>

\* the index of the group that holds c
GroupOf(c) ==
    CHOOSE i \in DOMAIN tie_result.groups : c \in Range(tie_result.groups[i])

\* C19: for more than two candidates the groups are ordered by pairwise-win
\* count over the given candidates: a candidate that beats strictly more of
\* the others than another one is in a strictly earlier group, and the
\* members of one group share one count, which is the greatest count among
\* the candidates not in an earlier group.
C19_GroupsOrderedByPairwiseWins ==
    (TiesDone /\ Len(candidates) > 2) =>
        /\ \A x, y \in Range(candidates) :
              Beats(x) > Beats(y) => GroupOf(x) < GroupOf(y)
        /\ \A i \in DOMAIN tie_result.groups :
              \A x \in Range(tie_result.groups[i]) :
                 /\ \A y \in Range(tie_result.groups[i]) : Beats(y) = Beats(x)
                 /\ \A y \in Range(candidates) : GroupOf(y) >= i => Beats(y) <= Beats(x)

\* four candidates: a top pair sent to a recursive call, then candidates of
\* smaller counts
C19_Witness ==
    /\ TiesDone /\ Len(candidates) = 4
    /\ tie_result.calls # {}
    /\ \E x, y, z \in Range(candidates) :
          /\ x # y /\ Beats(x) = Beats(y) /\ Beats(x) > Beats(z)
          /\ GroupOf(x) < GroupOf(z) /\ GroupOf(y) < GroupOf(z)

\* C26: every candidate passed to resolve_ties, resolved into a singleton
\* group or left in a tied group, has an entry in the rationale map that
\* resolve_ties returns, for every non-empty candidate list.
C26_EveryCandidateHasRationale ==
    TiesDone => \A c \in Range(candidates) : c \in DOMAIN tie_result.info

\* C26, amended: every candidate of a list of two or more candidates has an
\* entry in the returned rationale map, and the entry names at least one
\* comparison; for a single candidate the map is empty.
C26_RationaleForTwoOrMore ==
    TiesDone =>
        /\ Len(candidates) >= 2 =>
              /\ DOMAIN tie_result.info = Range(candidates)
              /\ \A c \in Range(candidates) : tie_result.info[c] # <<>>
        /\ Len(candidates) = 1 => tie_result.info = EmptyDict

\* four candidates: a recursive call, a singleton group and a tied group,
\* every candidate with a rationale
C26_Witness ==
    /\ TiesDone /\ Len(candidates) = 4
    /\ tie_result.calls # {}
    /\ \E i, k \in DOMAIN tie_result.groups :
          Len(tie_result.groups[i]) = 1 /\ Len(tie_result.groups[k]) >= 2
    /\ DOMAIN tie_result.info = Range(candidates)

(***************************************************************************)
(* Properties of a round's run (SpecPipeline).                             *)
(***************************************************************************)
\* the permutations of 1..n
RowOrders(n) ==
    {p \in [1..n -> 1..n] : \A i, j \in 1..n : i # j => p[i] # p[j]}

\* the rows of df in the order p
Reorder(df, p) == [i \in DOMAIN df |-> df[p[i]]]

\* build_judge_rankings_for_subset followed by determine_majority_placements
PlacementsOf(df) ==
    LET built == build_judge_rankings_for_subset(df)
    IN  determine_majority_placements(StartNumbers(df), built.judge_rankings,
                                      built.num_judges)

\* place and member ids, in order, of every record
PlacesAndMembers(records) ==
    [i \in DOMAIN records |-> <<records[i].place, records[i].couples>>]

\* the rankings are built
Built == mode = "pipeline" /\ pc \in {"built", "placed", "raised"}

\* the total judge j gave to row i of the data frame
TotalGiven(i, j) == JudgeTotal(df_subset[i], j, Len(Categories))

\* the rows to which judge j gave a strictly higher total than to row i
HigherRows(i, j) ==
    {k \in DOMAIN df_subset : RatLess(TotalGiven(i, j), TotalGiven(k, j))}

\* C20: in each judge's ranking built by build_judge_rankings_for_subset the
\* rank of a competitor is 1 plus the number of competitors to whom that
\* judge gave a strictly higher total: equal totals share one rank, the next
\* lower total gets its 1-based position, and the ids play no part.
C20_RankCountsHigherTotals ==
    Built =>
        \A j \in DOMAIN judge_rankings :
            /\ DOMAIN judge_rankings[j] = Range(StartNumbers(df_subset))
            /\ \A i \in DOMAIN df_subset :
                  judge_rankings[j][df_subset[i].start_number]
                      = 1 + Cardinality(HigherRows(i, j))

\* one judge gives two competitors the same total and rank and a third one a
\* lower total, which gets rank 3
C20_Witness ==
    /\ Built
    /\ \E j \in DOMAIN judge_rankings :
          \E x, y, z \in DOMAIN df_subset :
             /\ x # y
             /\ TotalGiven(x, j) = TotalGiven(y, j)
             /\ RatLess(TotalGiven(z, j), TotalGiven(x, j))
             /\ judge_rankings[j][df_subset[x].start_number] = 1
             /\ judge_rankings[j][df_subset[y].start_number] = 1
             /\ judge_rankings[j][df_subset[z].start_number] = 3

\* C8: the placement result does not depend on the order of the input rows:
\* for every permutation of the rows, build_judge_rankings_for_subset followed
\* by determine_majority_placements yields the same ordered list of records,
\* with the same place and the same member ids in the same order in every
\* record (and raises for every order if it raises for one).
C8_RowOrderIndependent ==
    (mode = "pipeline" /\ pc \in {"placed", "raised"}) =>
        \A p \in RowOrders(Len(df_subset)) :
            LET other == PlacementsOf(Reorder(df_subset, p))
            IN  /\ other.raised <=> pc = "raised"
                /\ PlacesAndMembers(other.records) = PlacesAndMembers(placement_records)

\* three rows, a shared place among the records, and more than one record
C8_Witness ==
    /\ mode = "pipeline" /\ pc = "placed"
    /\ Len(df_subset) >= 3
    /\ Len(placement_records) >= 2
    /\ \E i \in DOMAIN placement_records : Len(placement_records[i].couples) >= 2

\* no row has a non-absent judge score (or there is no row)
NoJudgeScores(df) ==
    \A i \in DOMAIN df : \A cat \in CategorySet : NonAbsentCount(df[i].scores[cat]) = 0

\* no raw judge score of the couple's categories is a number
NoScores(categories) ==
    \A code \in Range(CATEGORY_CODES) : \A k \in DOMAIN categories[code] :
        IsAbsent(_parse_score(categories[code][k]))

\* every category aggregate and the total are absent
AllAbsent(out) ==
    /\ \A code \in Range(CATEGORY_CODES) : IsAbsent(out.per_category[code])
    /\ IsAbsent(out.total)

\* C9: with an empty competitor set, or with competitors without any
\* non-absent judge score, the placement functions report no result and do
\* not raise: the builder returns no ranking, determine_majority_placements
\* returns no record and compute_majority_system_results returns None; and
\* the aggregation functions, given categories without a score, return an
\* absent value for every category and an absent total.
C9_NoResultWithoutScores ==
    mode = "pipeline" =>
        /\ (pc \notin {"loaded", "scored"} /\ NoJudgeScores(df_subset)) =>
              /\ pc # "raised"
              /\ pc \in {"computed", "built", "placed"} => result.none
              /\ pc \in {"built", "placed"} => judge_rankings = <<>>
              /\ pc = "placed" => placement_records = <<>>
        /\ pc # "loaded" =>
              \A i \in DOMAIN selected_data :
                  NoScores(selected_data[i].categories) =>
                      /\ AllAbsent(scores_out[i].scaled)
                      /\ AllAbsent(scores_out[i].simple)
                      /\ AllAbsent(scores_out[i].trimmed)

(***************************************************************************)
(* Properties of the round combiner (SpecCombine).                         *)
(***************************************************************************)
\* the ids present in both rounds
InBothRounds ==
    Range(StartNumbers(prepare_couples_data(selected_data)))
        \cap Range(StartNumbers(prepare_couples_data(other_round_data)))

\* C10: round combining is commutative on judge scores: for every competitor
\* id present in both rounds and every category, combining the selected
\* round with the other gives the same merged judge-score list (same length,
\* same value or absence in every slot) as combining the other with the
\* selected round.
C10_CombiningIsCommutative ==
    (mode = "combine" /\ pc # "loaded") =>
        LET swapped == combine_rounds_for_majority(other_round_data, selected_data)
        IN  \A id \in InBothRounds : \A cat \in CategorySet :
                RowMap(df_subset)[id].scores[cat] = RowMap(swapped)[id].scores[cat]

\* an id of both rounds with lists of different lengths in a category, a slot
\* with a value in both rounds and a merged slot with one value only
C10_Witness ==
    /\ mode = "combine" /\ pc = "prepared"
    /\ \E id \in InBothRounds : \E cat \in CategorySet :
          LET a == RowMap(prepare_couples_data(selected_data))[id].scores[cat]
              b == RowMap(prepare_couples_data(other_round_data))[id].scores[cat]
          IN  /\ Len(a) > Len(b) /\ Len(b) >= 1
              /\ ~IsAbsent(a[1]) /\ ~IsAbsent(b[1]) /\ a[1] # b[1]
              /\ ~IsAbsent(a[Len(a)])
              /\ RowMap(df_subset)[id].scores[cat][1] = Some(FloatAdd(Value(a[1]), Value(b[1])))

\* the prepared data frames of the two rounds
CurrentFrame == prepare_couples_data(selected_data)
OtherFrame == prepare_couples_data(other_round_data)

Combined == mode = "combine" /\ pc # "loaded"

\* C24: for a competitor present in both rounds, slot i of the merged
\* judge-score list of a category is absent when slot i is absent or beyond
\* the end of the list in both rounds, the single present value when exactly
\* one round has a value at slot i, and the sum of the two values when both
\* have one; the merged list is as long as the longer of the two lists.
C24_MergedSlots ==
    Combined =>
        \A id \in InBothRounds : \A cat \in CategorySet :
            LET a == RowMap(CurrentFrame)[id].scores[cat]
                b == RowMap(OtherFrame)[id].scores[cat]
                merged == RowMap(df_subset)[id].scores[cat]
            IN  /\ Len(merged) = Max({Len(a), Len(b)})
                /\ \A i \in DOMAIN merged :
                      LET in_a == i <= Len(a) /\ ~IsAbsent(a[i])
                          in_b == i <= Len(b) /\ ~IsAbsent(b[i])
                      IN  /\ (~in_a /\ ~in_b) => IsAbsent(merged[i])
                          /\ (in_a /\ ~in_b) => merged[i] = a[i]
                          /\ (~in_a /\ in_b) => merged[i] = b[i]
                          /\ (in_a /\ in_b) =>
                                merged[i] = Some(FloatAdd(Value(a[i]), Value(b[i])))

\* a merged list with a slot summed from two different values and a slot
\* with the value of the other round only
C24_Witness ==
    /\ Combined
    /\ \E id \in InBothRounds : \E cat \in CategorySet :
          LET a == RowMap(CurrentFrame)[id].scores[cat]
              b == RowMap(OtherFrame)[id].scores[cat]
              merged == RowMap(df_subset)[id].scores[cat]
          IN  /\ Len(a) = 1 /\ Len(b) = 2
              /\ ~IsAbsent(a[1]) /\ ~IsAbsent(b[1]) /\ ~IsAbsent(b[2])
              /\ a[1] # b[1]
              /\ merged = <<Some(FloatAdd(Value(a[1]), Value(b[1]))), b[2]>>

\* C25: the combined competitor set holds exactly the union of the ids of
\* the two rounds, each id once, and a competitor present in only one round
\* is in the combined set with its fields and judge scores unchanged.
C25_UnionOfIdsAndPassThrough ==
    Combined =>
        LET ids_current == Range(StartNumbers(CurrentFrame))
            ids_other   == Range(StartNumbers(OtherFrame))
        IN  /\ Range(StartNumbers(df_subset)) = ids_current \cup ids_other
            /\ Len(df_subset) = Cardinality(ids_current \cup ids_other)
            /\ \A i \in DOMAIN df_subset :
                  LET id == df_subset[i].start_number
                  IN  /\ id \notin ids_other => df_subset[i] = RowMap(CurrentFrame)[id]
                      /\ id \notin ids_current => df_subset[i] = RowMap(OtherFrame)[id]

\* a competitor of both rounds and one of the other round only, with a
\* judge score, in the combined frame
C25_Witness ==
    /\ Combined
    /\ InBothRounds # {}
    /\ \E i \in DOMAIN df_subset :
          /\ df_subset[i].start_number \notin Range(StartNumbers(CurrentFrame))
          /\ df_subset[i] = RowMap(OtherFrame)[df_subset[i].start_number]
          /\ \E cat \in CategorySet : \E k \in DOMAIN df_subset[i].scores[cat] :
                ~IsAbsent(df_subset[i].scores[cat][k])

(***************************************************************************)
(* Properties of the aggregation policies (SpecScoring).                   *)
(***************************************************************************)
Scored == mode = "scoring" /\ pc # "loaded"

\* the raw judge scores of a category of the couple
RawScores(code) == selected_data[1].categories[code]

\* the available scores of a category: the numbers its tokens parse to, in order
AvailableScores(code) ==
    LET parsed == [k \in DOMAIN RawScores(code) |-> _parse_score(RawScores(code)[k])]
        kept   == SelectSeq(parsed, LAMBDA o : o # Absent)
    IN  [k \in DOMAIN kept |-> kept[k][1]]

\* what the three policies returned for the couple
PolicyResults == {scores_out[1].scaled, scores_out[1].simple, scores_out[1].trimmed}

RECURSIVE SumOfPresent(_, _)
\* the per-category aggregates of the categories 1..k that are present, added up
SumOfPresent(per_category, k) ==
    IF k = 0 THEN RatOfInt(0)
    ELSE LET agg == per_category[CATEGORY_CODES[k]]
         IN  IF agg = Absent THEN SumOfPresent(per_category, k - 1)
             ELSE FloatAdd(SumOfPresent(per_category, k - 1), agg[1])

\* C11: for each aggregation policy (when it returns), a category with no
\* available score has an absent aggregate and a category with one has a
\* present aggregate; the total is absent if and only if every category
\* aggregate is absent (it is not 0); otherwise it is the sum of the
\* aggregates of exactly the categories whose aggregate is present.
C11_TotalSumsPresentCategories ==
    Scored =>
        \A out \in PolicyResults :
            ~out.raised =>
                /\ \A code \in Range(CATEGORY_CODES) :
                       out.per_category[code] = Absent <=> AvailableScores(code) = <<>>
                /\ out.total = Absent <=>
                       \A code \in Range(CATEGORY_CODES) : out.per_category[code] = Absent
                /\ out.total # Absent =>
                       out.total = Some(SumOfPresent(out.per_category, Len(CATEGORY_CODES)))

\* two categories with an aggregate, and one whose tokens all parse to nothing
C11_Witness ==
    /\ Scored
    /\ ~scores_out[1].simple.raised
    /\ Cardinality({code \in Range(CATEGORY_CODES) :
                       scores_out[1].simple.per_category[code] # Absent}) >= 2
    /\ \E code \in Range(CATEGORY_CODES) :
          RawScores(code) # <<>> /\ scores_out[1].simple.per_category[code] = Absent
    /\ scores_out[1].simple.total # Absent

\* the smallest and the largest of a non-empty list of numbers
MinOf(values) == CHOOSE v \in Range(values) : \A w \in Range(values) : ~RatLess(w, v)
MaxOf(values) == CHOOSE v \in Range(values) : \A w \in Range(values) : ~RatLess(v, w)

\* the lists made of values without one occurrence of its minimum and one of
\* its maximum (more than two values), in any order
ScoreRests(values) ==
    LET n      == Len(values)
        lowest == CHOOSE k \in 1..n : values[k] = MinOf(values)
        highest == CHOOSE k \in 1..n \ {lowest} : values[k] = MaxOf(values)
        left   == (1..n) \ {lowest, highest}
    IN  {[i \in 1..(n - 2) |-> values[p[i]]] :
            p \in {q \in [1..(n - 2) -> left] : \A i, j \in 1..(n - 2) : i # j => q[i] # q[j]}}

\* values in ascending order
IsAscending(values) ==
    \A i, j \in DOMAIN values : i < j => ~RatLess(values[j], values[i])

\* the float mean of values: their sum, added from left to right, over their number
MeanOf(values) == FloatDiv(FloatSum(values), RatOfInt(Len(values)))

\* C12: the trimmed average of a category with more than two available
\* scores is the mean of the scores that remain when one occurrence of the
\* minimum and one occurrence of the maximum are removed (summed in ascending
\* order); with one or two available scores it is the simple average of
\* those scores; with none it is absent.
C12_TrimmedAverageDropsOneMinOneMax ==
    (Scored /\ ~scores_out[1].trimmed.raised) =>
        \A code \in Range(CATEGORY_CODES) :
            LET avail   == AvailableScores(code)
                trimmed == scores_out[1].trimmed.per_category[code]
            IN  /\ Len(avail) = 0 => trimmed = Absent
                /\ Len(avail) \in {1, 2} =>
                       /\ trimmed = Some(MeanOf(avail))
                       /\ trimmed = scores_out[1].simple.per_category[code]
                /\ Len(avail) > 2 =>
                       \E rest \in {r \in ScoreRests(avail) : IsAscending(r)} :
                           trimmed = Some(MeanOf(rest))

\* more than two available scores, not in ascending order, the minimum twice
C12_Witness ==
    /\ Scored /\ ~scores_out[1].trimmed.raised
    /\ \E code \in Range(CATEGORY_CODES) :
          LET avail == AvailableScores(code)
          IN  /\ Len(avail) > 2
              /\ ~IsAscending(avail)
              /\ Cardinality({k \in DOMAIN avail : avail[k] = MinOf(avail)}) = 2
              /\ scores_out[1].trimmed.per_category[code] # scores_out[1].simple.per_category[code]

\* the available scores of the category are all equal (and there is one)
AllEqualScores(code) ==
    /\ AvailableScores(code) # <<>>
    /\ \A k \in DOMAIN AvailableScores(code) : AvailableScores(code)[k] = AvailableScores(code)[1]

\* the multiples v, 2v, ..., nv of a float v are floats: no sum of copies of
\* v is rounded
ExactMultiples(v, n) == \A k \in 1..n : Round(RatMul(RatOfInt(k), v)) = RatMul(RatOfInt(k), v)

\* C13 as stated: the scaled-median aggregate of a category whose available
\* scores are all equal to v is exactly v.
C13_EqualScoresGiveThatScore ==
    (Scored /\ ~scores_out[1].scaled.raised) =>
        \A code \in Range(CATEGORY_CODES) :
            AllEqualScores(code) =>
                scores_out[1].scaled.per_category[code] = Some(AvailableScores(code)[1])

\* C13 amended: the scaled-median aggregate of a category whose n available
\* scores are all equal to v is exactly v when the sums v, 2v, ..., nv are
\* floats (as for [5,5,5,5,5]): every weight is 1 and the sum of the n
\* weighted values, n * v, is divided by n.
C13_EqualScoresWithExactSums ==
    (Scored /\ ~scores_out[1].scaled.raised) =>
        \A code \in Range(CATEGORY_CODES) :
            (AllEqualScores(code)
                /\ ExactMultiples(AvailableScores(code)[1], Len(AvailableScores(code)))) =>
                scores_out[1].scaled.per_category[code] = Some(AvailableScores(code)[1])

\* five equal scores whose sums are exact, in a list of the couple
C13_Witness ==
    /\ Scored /\ ~scores_out[1].scaled.raised
    /\ \E code \in Range(CATEGORY_CODES) :
          /\ AllEqualScores(code)
          /\ Len(AvailableScores(code)) = 5
          /\ ExactMultiples(AvailableScores(code)[1], 5)
          /\ scores_out[1].scaled.per_category[code] = Some(AvailableScores(code)[1])

\* an absent marker, or a string that is empty or holds blanks only
BlankToken(tok) ==
    \/ tok.kind = "none"
    \/ tok.kind = "str" /\ \A i \in DOMAIN tok.chars : tok.chars[i] = " "

\* a string with a character that is neither a digit, a separator, a sign nor a blank
UnparseableToken(tok) ==
    /\ tok.kind = "str"
    /\ \E i \in DOMAIN tok.chars : tok.chars[i] \notin Digits \cup {",", ".", "-", "+", " "}

\* C14: the score normalizer never raises, whatever the token: an absent,
\* empty, blank or unparseable token yields absent, a number token and a
\* numeral yield a number, and no token makes the aggregation policies abort.
C14_NormalizerNeverRaises ==
    Scored =>
        /\ \A code \in Range(CATEGORY_CODES) : \A k \in DOMAIN RawScores(code) :
               LET tok == RawScores(code)[k]
               IN  /\ ~ParseScoreRaises(tok)
                   /\ (BlankToken(tok) \/ UnparseableToken(tok)) =>
                          _parse_score(tok) = Absent /\ parse_european_number(tok) = Absent
                   /\ (tok.kind = "num" \/ tok \in PlainTokens \ {NoneTok}) =>
                          _parse_score(tok) # Absent
        /\ \A out \in PolicyResults : ~out.raised

(***************************************************************************)
(* Properties of the ranking builder (SpecPipeline).                       *)
(***************************************************************************)
\* the scores judge slot j holds for row i, in category order
SlotScores(i, j) ==
    LET present == SelectSeq(Categories,
                             LAMBDA cat : /\ j <= Len(df_subset[i].scores[cat])
                                          /\ ~IsAbsent(df_subset[i].scores[cat][j]))
    IN  [k \in DOMAIN present |-> Value(df_subset[i].scores[present[k]][j])]

\* their sum, 0 when there is none
SlotTotal(i, j) == FloatSum(SlotScores(i, j))

\* C21: every competitor of the input is in every judge's ranking; a judge's
\* total for a competitor is the sum of that judge's non-absent scores over
\* the categories (an absent score adds 0), and a competitor without any
\* score of a judge is ranked by that judge with total 0.
C21_EveryCompetitorRankedByEveryJudge ==
    Built =>
        \A j \in DOMAIN judge_rankings :
            /\ DOMAIN judge_rankings[j] = Range(StartNumbers(df_subset))
            /\ \A i \in DOMAIN df_subset :
                  /\ TotalGiven(i, j) = SlotTotal(i, j)
                  /\ SlotScores(i, j) = <<>> => TotalGiven(i, j) = RatOfInt(0)
                  /\ judge_rankings[j][df_subset[i].start_number]
                        = 1 + Cardinality({k \in DOMAIN df_subset :
                                             RatLess(SlotTotal(i, j), SlotTotal(k, j))})

\* a judge with scores for one competitor in two categories and none for
\* another competitor, who is ranked behind
C21_Witness ==
    /\ Built
    /\ \E j \in DOMAIN judge_rankings : \E i, k \in DOMAIN df_subset :
          /\ SlotScores(i, j) = <<>>
          /\ Len(SlotScores(k, j)) >= 2
          /\ judge_rankings[j][df_subset[i].start_number] = 2
          /\ judge_rankings[j][df_subset[k].start_number] = 1

\* the largest number of non-absent scores of one list, over all rows and
\* categories
LargestScoreCount ==
    Max({NonAbsentCount(df_subset[i].scores[cat]) :
            i \in DOMAIN df_subset, cat \in CategorySet} \cup {0})

\* C22: the number of judge rankings returned by
\* build_judge_rankings_for_subset is the maximum, over all competitors and
\* all five categories, of the number of non-absent scores of the
\* competitor's judge-score list of the category.
C22_JudgeCountIsLargestScoreCount ==
    Built => Len(judge_rankings) = LargestScoreCount

\* C30: no judge score is lost by the ranking builder: every slot index that
\* holds a non-absent score of some competitor in some category has a
\* ranking, also behind an absent slot and in lists of different lengths.
C30_NoScoreLost ==
    Built =>
        \A i \in DOMAIN df_subset : \A cat \in CategorySet :
            \A idx \in DOMAIN df_subset[i].scores[cat] :
                ~IsAbsent(df_subset[i].scores[cat][idx]) => idx <= Len(judge_rankings)

(***************************************************************************)
(* Judge anonymity of the placement run (Spec).                            *)
(***************************************************************************)
\* the orders of 1..n
ListOrders[n \in 0..MaxPermuted] ==
    IF n = 0 THEN {<<>>}
    ELSE UNION {{SubSeq(p, 1, k) \o <<n>> \o SubSeq(p, k + 1, n - 1) : k \in 0..(n - 1)} :
                   p \in ListOrders[n - 1]}

\* the exchanges of two of 1..n
Exchanges(n) ==
    {[k \in 1..n |-> IF k = i THEN j ELSE IF k = j THEN i ELSE k] : i, j \in 1..n}

\* the orders of the judges that are tried: all of them for up to MaxPermuted
\* judges, every exchange of two judges for more
JudgeOrders(n) == IF n <= MaxPermuted THEN ListOrders[n] ELSE Exchanges(n)

\* C29: judge anonymity: permuting the order of the rankings in
\* judge_rankings leaves the places and the members, in order, of every
\* record of determine_majority_placements unchanged.
C29_JudgeOrderIndependent ==
    Done =>
        \A p \in JudgeOrders(Len(judge_rankings)) :
            LET other == determine_majority_placements(
                             df_ids, Reorder(judge_rankings, p), Len(judge_rankings))
            IN  /\ ~other.raised
                /\ PlacesAndMembers(other.records) = PlacesAndMembers(placement_records)

\* three judges with three different rankings of three competitors, placed
\* in more than one record
C29_Witness ==
    /\ Done
    /\ Len(judge_rankings) >= 3
    /\ Len(df_ids) >= 3
    /\ \A j, k \in DOMAIN judge_rankings : j # k => judge_rankings[j] # judge_rankings[k]
    /\ Len(placement_records) >= 2

====
